---- MODULE Spec2Model ----
(***************************************************************************)
(* Model of the chat pipeline of backend/main.py: the query classifier     *)
(* (classify_query), the two retrievers (search_internal_documents,        *)
(* search_web) and the streaming orchestrator (chat.stream_generator).     *)
(* Strings are TLA+ strings; the string functions of the code (lower,      *)
(* strip, upper, substring containment) are computed character by          *)
(* character.                                                              *)
(***************************************************************************)
EXTENDS Integers, Sequences, FiniteSets, TLC

VARIABLES
    pc,                \* position of the generator / of the function under test
    openai_client,     \* TRUE: initialised, FALSE: None (main.py:168-184)
    search_client,     \* TRUE: initialised, FALSE: None (main.py:168-184)
    message,           \* chat_request.message
    query_type,        \* stream_generator's query_type ("" before it is set)
    internal_results,  \* stream_generator's internal_results
    external_results,  \* stream_generator's external_results (NoneValue: None)
    chat_error,        \* str(chat_error) of the completion handler ("" : none)
    chunks,            \* the chunks the completion stream has delivered so far
    disconnected,      \* what request.is_disconnected() answers
    observed,          \* is_disconnected() has answered True in the delta loop
    out,               \* the items the generator has yielded, in order
    calls,             \* the calls made, in order: of the classifier and the
                       \* retrievers (with their returns) and of the providers
    local              \* the locals of the function under test (NoneValue: none)

vars == <<pc, openai_client, search_client, message, query_type,
          internal_results, external_results, chat_error, chunks,
          disconnected, observed, out, calls, local>>

(***************************************************************************)
(* Bounds of the model.                                                    *)
(***************************************************************************)
MaxFragments == 3
MaxDocs == 4
MaxChunks == 3
MaxText == 5
MaxSentences == 5
MaxUnset == 2
MaxPairChunks == 1
MaxPairDocs == 1
MaxPairAttempts == 1
MaxOtherSteps == 2

(***************************************************************************)
(* String functions.                                                       *)
(***************************************************************************)
UpperLetters == "ABCDEFGHIJKLMNOPQRSTUVWXYZ"
LowerLetters == "abcdefghijklmnopqrstuvwxyz"

CharAt(s, i) == SubSeq(s, i, i)

\* str.lower() on one ASCII character
LowerChar(c) ==
    IF \E i \in 1..Len(UpperLetters) : CharAt(UpperLetters, i) = c
    THEN CharAt(LowerLetters, CHOOSE i \in 1..Len(UpperLetters) : CharAt(UpperLetters, i) = c)
    ELSE c

\* str.upper() on one ASCII character
UpperChar(c) ==
    IF \E i \in 1..Len(LowerLetters) : CharAt(LowerLetters, i) = c
    THEN CharAt(UpperLetters, CHOOSE i \in 1..Len(LowerLetters) : CharAt(LowerLetters, i) = c)
    ELSE c

RECURSIVE LowerFrom(_, _)
LowerFrom(s, i) ==
    IF i > Len(s) THEN "" ELSE LowerChar(CharAt(s, i)) \o LowerFrom(s, i + 1)

\* A lower() that leaves the text as it is.
StrLower_Identity(s) == s

\* str.lower()
StrLower(s) == LowerFrom(s, 1)

RECURSIVE UpperFrom(_, _)
UpperFrom(s, i) ==
    IF i > Len(s) THEN "" ELSE UpperChar(CharAt(s, i)) \o UpperFrom(s, i + 1)

\* str.upper()
StrUpper(s) == UpperFrom(s, 1)

IsSpace(c) == c \in {" ", "\n", "\t", "\r"}

\* str.strip()
StrStrip(s) ==
    LET kept == {i \in 1..Len(s) : ~IsSpace(CharAt(s, i))}
    IN  IF kept = {} THEN ""
        ELSE SubSeq(s, CHOOSE i \in kept : \A j \in kept : i <= j,
                       CHOOSE i \in kept : \A j \in kept : j <= i)

\* Python's  k in s  on strings
Contains(s, k) ==
    \E t \in {s} : \E i \in 1..(Len(t) - Len(k) + 1) : SubSeq(t, i, i + Len(k) - 1) = k

(***************************************************************************)
(* classify_query: the keyword lists and the three lexical tiers.          *)
(***************************************************************************)
internal_keywords ==
    {"globelink", "project alpha", "arr", "enterprise value", "nda", "loi",
     "debt schedule", "moic", "our deal", "our company", "our documents"}

external_keywords ==
    {"market cap", "stock price", "tesla", "apple", "crowdstrike", "nasdaq",
     "current", "today", "public company"}

hybrid_indicators ==
    {"compare", "comparison", "benchmark", "vs", "versus", "against",
     "market average", "industry average", "public companies", "competitors",
     "market multiples", "market valuation", "industry standard", "peer group",
     "how does our", "how does globelink", "relative to", "compared to"}

has_internal(question_lower) ==
    \E keyword \in internal_keywords : Contains(question_lower, keyword)

has_external_indicators(question_lower) ==
    \E keyword \in external_keywords : Contains(question_lower, keyword)

has_hybrid_indicators(question_lower) ==
    \E indicator \in hybrid_indicators : Contains(question_lower, indicator)

\* The tiers in the order external, hybrid, internal.
TierOf_ExternalFirst(question_lower) ==
    IF has_external_indicators(question_lower) THEN "external"
    ELSE IF has_internal(question_lower) /\ has_hybrid_indicators(question_lower)
    THEN "hybrid"
    ELSE IF has_internal(question_lower) THEN "internal"
    ELSE "none"

\* main.py:232-248: the tiers, on the lowercased question; "none": no tier matched.
TierOf(question_lower) ==
    IF has_internal(question_lower)
       /\ (has_hybrid_indicators(question_lower) \/ has_external_indicators(question_lower))
    THEN "hybrid"
    ELSE IF has_external_indicators(question_lower) THEN "external"
    ELSE IF has_internal(question_lower) THEN "internal"
    ELSE "none"

\* main.py:229-248: the lexical part of classify_query.
LexicalTier(question) ==
    CHOOSE tier \in {TierOf(question_lower) : question_lower \in {StrLower(question)}} : TRUE

\* What the model provider can do on the fallback call: answer with a text,
\* answer with no text (content None), or fail.
NoContent == "<None>"
CallFails == "<raise>"
LLMResponses ==
    {"INTERNAL", "EXTERNAL", "HYBRID", " internal\n", "Hybrid", "I think INTERNAL", ""}
LLMOutcomes == LLMResponses \cup {NoContent, CallFails}

\* The fallback of classify_query, given the provider's outcome.  An
\* uninitialised client, a failed call and a None content all raise inside
\* the try block and end in the except branch.
LLMFallback_NoStrip(client, outcome) ==
    IF ~client \/ outcome = CallFails \/ outcome = NoContent THEN "external"
    ELSE CHOOSE intent \in {IF classification \in {"INTERNAL", "EXTERNAL", "HYBRID"}
                            THEN StrLower(classification)
                            ELSE "external"
                            : classification \in {StrUpper(outcome)}} : TRUE

LLMFallback(client, outcome) ==
    IF ~client \/ outcome = CallFails \/ outcome = NoContent THEN "external"
    ELSE CHOOSE intent \in {IF classification \in {"INTERNAL", "EXTERNAL", "HYBRID"}
                            THEN StrLower(classification)
                            ELSE "external"
                            : classification \in {StrUpper(StrStrip(outcome))}} : TRUE

\* A classifier that calls the model provider also when a lexical tier matched.
ClassifyQuery_AlwaysAsks(question, client, outcome) ==
    CHOOSE r \in {IF tier # "none"
                  THEN [intent |-> tier, fallback |-> FALSE, llm |-> client]
                  ELSE [intent |-> LLMFallback(client, outcome), fallback |-> TRUE,
                        llm |-> client]
                  : tier \in {LexicalTier(question)}} : TRUE

\* classify_query(question): the intent, whether the fallback path was taken
\* and whether the model provider was called.
ClassifyQuery(question, client, outcome) ==
    CHOOSE r \in {IF tier # "none"
                  THEN [intent |-> tier, fallback |-> FALSE, llm |-> FALSE]
                  ELSE [intent |-> LLMFallback(client, outcome), fallback |-> TRUE,
                        llm |-> client]
                  : tier \in {LexicalTier(question)}} : TRUE

Min(a, b) == IF a < b THEN a ELSE b

(***************************************************************************)
(* clean_text and extract_snippet.  A text is the sequence of the code     *)
(* points of its characters, so that characters outside ASCII and the      *)
(* whitespace characters of the regular expressions can be told apart.     *)
(***************************************************************************)
\* The characters of codes 32-95 and 97-126, in code order.
AsciiLow == " !\"#$%&'()*+,-./0123456789:;<=>?@ABCDEFGHIJKLMNOPQRSTUVWXYZ[\\]^_"
AsciiHigh == "abcdefghijklmnopqrstuvwxyz{|}~"

\* ord(c) for the characters that occur in the model's strings
CodeOf ==
    [c \in {CharAt(AsciiLow, i) : i \in 1..Len(AsciiLow)}
           \cup {CharAt(AsciiHigh, i) : i \in 1..Len(AsciiHigh)} \cup {"\n", "\t"} |->
        IF c = "\n" THEN 10
        ELSE IF c = "\t" THEN 9
        ELSE IF \E i \in 1..Len(AsciiLow) : CharAt(AsciiLow, i) = c
        THEN 31 + (CHOOSE i \in 1..Len(AsciiLow) : CharAt(AsciiLow, i) = c)
        ELSE 96 + (CHOOSE i \in 1..Len(AsciiHigh) : CharAt(AsciiHigh, i) = c)]

Ord(c) == CodeOf[c]

\* chr(n) for the same characters
Chr(n) ==
    IF n = 10 THEN "\n"
    ELSE IF n = 9 THEN "\t"
    ELSE IF n < 96 THEN CharAt(AsciiLow, n - 31)
    ELSE CharAt(AsciiHigh, n - 96)

ToCodes(s) == [i \in 1..Len(s) |-> Ord(CharAt(s, i))]

RECURSIVE FromCodesAt(_, _)
FromCodesAt(cs, i) ==
    IF i > Len(cs) THEN "" ELSE Chr(cs[i]) \o FromCodesAt(cs, i + 1)

FromCodes(cs) == FromCodesAt(cs, 1)

\* The characters \s matches and str.strip / str.split treat as whitespace.
WhitespaceCodes ==
    {9, 10, 11, 12, 13, 28, 29, 30, 31, 32, 133, 160, 5760, 8232, 8233, 8239, 8287, 12288}
    \cup (8192..8202)

IsSpaceCode(c) == c \in WhitespaceCodes
IsLowerCode(c) == c \in 97..122
IsUpperCode(c) == c \in 65..90
IsAsciiCode(c) == c \in 0..127

\* str.strip()
StripCodes(cs) ==
    LET kept == {i \in 1..Len(cs) : ~IsSpaceCode(cs[i])}
    IN  IF kept = {} THEN <<>>
        ELSE SubSeq(cs, CHOOSE i \in kept : \A j \in kept : i <= j,
                        CHOOSE i \in kept : \A j \in kept : j <= i)

\* main.py:336: re.sub(r'\s+', ' ', text): each run of whitespace becomes
\* one space
CollapseWhitespace(cs) ==
    LET firsts == SelectSeq([i \in 1..Len(cs) |-> <<IF i = 1 THEN -1 ELSE cs[i - 1], cs[i]>>],
                            LAMBDA p : ~(IsSpaceCode(p[1]) /\ IsSpaceCode(p[2])))
    IN  [i \in 1..Len(firsts) |-> IF IsSpaceCode(firsts[i][2]) THEN 32 ELSE firsts[i][2]]

\* main.py:339: re.sub(r'([a-z])([A-Z])', r'\1 \2', text): a space between a
\* lower-case letter and the upper-case letter that follows it
RECURSIVE SplitJoinedFrom(_, _)
SplitJoinedFrom(cs, i) ==
    IF i > Len(cs) THEN <<>>
    ELSE (IF i < Len(cs) /\ IsLowerCode(cs[i]) /\ IsUpperCode(cs[i + 1])
          THEN <<cs[i], 32>> ELSE <<cs[i]>>) \o SplitJoinedFrom(cs, i + 1)

\* main.py:341: re.sub(r'[^\x00-\x7F]+', '', text)
RemoveNonAscii(cs) == SelectSeq(cs, IsAsciiCode)

\* main.py:333-342
CleanText(text) ==
    RemoveNonAscii(SplitJoinedFrom(StripCodes(CollapseWhitespace(text)), 1))

\* str.lower() on the letters A-Z
LowerCodes(cs) == [i \in 1..Len(cs) |-> IF IsUpperCode(cs[i]) THEN cs[i] + 32 ELSE cs[i]]

\* set(s.split()): the maximal runs without whitespace
WordSet(cs) ==
    {SubSeq(cs, i, CHOOSE j \in i..Len(cs) :
                      /\ \A k \in i..j : ~IsSpaceCode(cs[k])
                      /\ (j = Len(cs) \/ IsSpaceCode(cs[j + 1])))
       : i \in {i \in 1..Len(cs) : ~IsSpaceCode(cs[i]) /\ (i = 1 \/ IsSpaceCode(cs[i - 1]))}}

\* nltk.sent_tokenize(text): a sentence ends at a '.', '!' or '?' that is
\* followed by whitespace, and at the end of the text; the sentences are
\* returned without the whitespace between them.
SentenceEnds(cs) ==
    {i \in 1..Len(cs) :
        /\ ~IsSpaceCode(cs[i])
        /\ \/ \A k \in (i + 1)..Len(cs) : IsSpaceCode(cs[k])
           \/ cs[i] \in {46, 33, 63} /\ IsSpaceCode(cs[i + 1])}

RECURSIVE SentencesFrom(_, _)
SentencesFrom(cs, i) ==
    LET ends == {e \in SentenceEnds(cs) : e >= i}
    IN  IF ends = {} THEN <<>>
        ELSE LET e == CHOOSE x \in ends : \A y \in ends : x <= y
             IN  <<StripCodes(SubSeq(cs, i, e))>> \o SentencesFrom(cs, e + 1)

SentTokenize(cs) == SentencesFrom(cs, 1)

\* main.py:360: the score of a sentence
Score(query_words, sentence) ==
    Cardinality(query_words \cap WordSet(LowerCodes(sentence)))

\* main.py:354-365: the loop over the sentences, from sentence i (1-based)
\* on; best = 0 stands for best_sentence_index = -1.
RECURSIVE BestSentenceFrom_LastWins(_, _, _, _, _)
BestSentenceFrom_LastWins(sentences, query_words, i, best, max_score) ==
    IF i > Len(sentences) THEN (IF best = 0 THEN 1 ELSE best)
    ELSE LET score == Score(query_words, sentences[i])
         IN  IF score >= max_score /\ score > 0
             THEN BestSentenceFrom_LastWins(sentences, query_words, i + 1, i, score)
             ELSE BestSentenceFrom_LastWins(sentences, query_words, i + 1, best, max_score)

RECURSIVE BestSentenceFrom(_, _, _, _, _)
BestSentenceFrom(sentences, query_words, i, best, max_score) ==
    IF i > Len(sentences) THEN (IF best = 0 THEN 1 ELSE best)
    ELSE LET score == Score(query_words, sentences[i])
         IN  IF score > max_score
             THEN BestSentenceFrom(sentences, query_words, i + 1, i, score)
             ELSE BestSentenceFrom(sentences, query_words, i + 1, best, max_score)

RECURSIVE JoinCodes(_, _, _)
JoinCodes(sentences, first, last) ==
    IF first > last THEN <<>>
    ELSE IF first = last THEN sentences[first]
    ELSE sentences[first] \o <<32>> \o JoinCodes(sentences, first + 1, last)

window_size == 1
FallbackChars == 500

Truncated_Whole(full_text) == full_text

\* main.py:352, 382: full_text[:500]
Truncated(full_text) == SubSeq(full_text, 1, Min(FallbackChars, Len(full_text)))

\* A snippet whose window leaves out the sentence after the best one.
ExtractSnippet_NarrowWindow(full_text, query, tokenizer_ok) ==
    IF ~tokenizer_ok THEN [snippet |-> Truncated(full_text), best |-> 0]
    ELSE LET sentences == SentTokenize(full_text)
         IN  IF Len(sentences) = 0 THEN [snippet |-> Truncated(full_text), best |-> 0]
             ELSE LET best == BestSentenceFrom(sentences, WordSet(LowerCodes(query)), 1, 0, 0)
                      first == IF best - window_size > 1 THEN best - window_size ELSE 1
                      last == Min(Len(sentences), best + window_size - 1)
                  IN  [snippet |-> (IF first > 1 THEN ToCodes("... ") ELSE <<>>)
                                   \o JoinCodes(sentences, first, last)
                                   \o (IF last < Len(sentences) THEN ToCodes(" ...") ELSE <<>>),
                       best |-> best]

\* main.py:344-382: extract_snippet(full_text, query) when the tokenizer
\* answers (tokenizer_ok) or raises; best is the 1-based index of the
\* sentence the window is centred on (0: no window was made).
ExtractSnippet(full_text, query, tokenizer_ok) ==
    IF ~tokenizer_ok THEN [snippet |-> Truncated(full_text), best |-> 0]
    ELSE LET sentences == SentTokenize(full_text)
         IN  IF Len(sentences) = 0 THEN [snippet |-> Truncated(full_text), best |-> 0]
             ELSE LET best == BestSentenceFrom(sentences, WordSet(LowerCodes(query)), 1, 0, 0)
                      first == IF best - window_size > 1 THEN best - window_size ELSE 1
                      last == Min(Len(sentences), best + window_size)
                  IN  [snippet |-> (IF first > 1 THEN ToCodes("... ") ELSE <<>>)
                                   \o JoinCodes(sentences, first, last)
                                   \o (IF last < Len(sentences) THEN ToCodes(" ...") ELSE <<>>),
                       best |-> best]

(***************************************************************************)
(* get_embedding and search_internal_documents.                            *)
(***************************************************************************)
max_retries == 3

Digit(i) == CharAt("0123456789", i + 1)

\* get_embedding(text) when the provider fails the first `fails` attempts:
\* whether a vector is returned, and the attempts made (none without a client).
GetEmbedding(client, fails) ==
    IF ~client THEN [ok |-> FALSE, attempts |-> 0]
    ELSE IF fails < max_retries THEN [ok |-> TRUE, attempts |-> fails + 1]
    ELSE [ok |-> FALSE, attempts |-> max_retries]

\* The i-th hit of the index, in the order the index returns them
\* (descending @search.score).
Hit(i) ==
    [id       |-> "chunk-" \o Digit(i),
     metadata |-> "deals/memo_" \o Digit(i) \o ".pdf",
     content  |-> "Full text of memo " \o Digit(i)
                  \o ".  GlobeLink ARR grew.\nRevenue was flat. Outlook is stable.",
     score    |-> MaxDocs + 1 - i]

\* The document search_internal_documents builds from one hit
\* (main.py:419-420: the snippet is extracted from the cleaned content).
Document(hit, query) ==
    [title   |-> hit.metadata,
     content |-> hit.content,
     snippet |-> FromCodes(ExtractSnippet(CleanText(ToCodes(hit.content)),
                                          ToCodes(query), TRUE).snippet),
     url     |-> "#" \o hit.id,
     score   |-> hit.score]

\* What the providers can do during one search_internal_documents call:
\* fails  - the number of leading embedding attempts that fail,
\* search - whether the vector search succeeds,
\* n      - the number of hits, bad - the hit whose processing raises (0: none).
InternalOutcomes ==
    [fails : 0..max_retries, search : BOOLEAN, n : 0..MaxDocs, bad : 0..MaxDocs]

\* search_internal_documents(query): the documents returned.  Any exception
\* (embedding, missing client, search, a hit) ends in  return [].
SearchInternalDocuments(query, oai, sc, o) ==
    IF ~GetEmbedding(oai, o.fails).ok \/ ~sc \/ ~o.search \/ o.bad \in 1..o.n
    THEN <<>>
    ELSE [i \in 1..o.n |-> Document(Hit(i), query)]

\* The provider calls search_internal_documents issues.
InternalCalls(oai, sc, o) ==
    [i \in 1..GetEmbedding(oai, o.fails).attempts |-> [svc |-> "embeddings"]]
    \o (IF GetEmbedding(oai, o.fails).ok /\ sc
        THEN <<[svc |-> "vector_search"]>> ELSE <<>>)

(***************************************************************************)
(* search_web.                                                             *)
(***************************************************************************)
WebOutcomes == {"200", "non200", "bad_body", "transport_error"}

\* The text the web provider answers with (choices[0].message.content).
WebContent == "CrowdStrike market cap is $90B [1]"

SearchWebResult_LabelsFailureAsProvider(query, configured, outcome) ==
    IF configured /\ outcome = "200"
    THEN [content |-> WebContent, source |-> "Perplexity AI", query |-> query]
    ELSE [content |-> "Unable to fetch web results", source |-> "Perplexity AI", query |-> ""]

\* A search_web that returns None when the search failed.
SearchWebResult_NoneOnFailure(query, configured, outcome) ==
    IF configured /\ outcome = "200"
    THEN [content |-> WebContent, source |-> "Perplexity AI", query |-> query]
    ELSE [none |-> TRUE]

\* search_web(query): the record returned.  Without initialised clients
\* PERPLEXITY_API_KEY is undefined and building the request raises.
SearchWebResult(query, configured, outcome) ==
    IF configured /\ outcome = "200"
    THEN [content |-> WebContent, source |-> "Perplexity AI", query |-> query]
    ELSE IF configured /\ outcome = "non200"
    THEN [content |-> "Unable to fetch web results", source |-> "Error", query |-> query]
    ELSE [content |-> "Web search failed: " \o
                      (IF ~configured THEN "name 'PERPLEXITY_API_KEY' is not defined"
                       ELSE IF outcome = "bad_body" THEN "'choices'"
                       ELSE "timed out"),
          source |-> "Error", query |-> query]

WebCalls(query, configured) ==
    IF configured THEN <<[svc |-> "perplexity", query |-> query]>> ELSE <<>>

HybridPrefix == "cybersecurity SaaS companies ARR revenue multiples market data "

(***************************************************************************)
(* The stream items of stream_generator.                                   *)
(***************************************************************************)
StatusEvent(s)   == [type |-> "status", content |-> s]
ContentEvent(s)  == [type |-> "content", content |-> s]
SourcesEvent(ss) == [type |-> "sources", sources |-> ss]
ErrorEvent(s)    == [type |-> "error", content |-> s]
DONE             == [type |-> "[DONE]"]

StatusClassifying == "Confirming receipt, working on it now."
StatusWeb         == "Searching the web for current information..."
StatusInternal    == "Searching internal documents..."
StatusWebMarket   == "Searching the web for market data..."
StatusGenerating  == "Generating response..."

NothingFoundExternal ==
    "I couldn't find current information about your query. Please try rephrasing your question."
NothingFoundHybrid ==
    "I couldn't find relevant information in our documents or current market data."
NothingFoundInternal ==
    "I couldn't find any relevant information in our internal documents to answer your question."
NothingFound == {NothingFoundExternal, NothingFoundHybrid, NothingFoundInternal}

NoneValue == [none |-> TRUE]

\* Python truthiness of external_results (None, or the dict search_web
\* returns, which always has three keys) and of internal_results (a list).
TruthyDict(v) == v # NoneValue
TruthyList(l) == Len(l) > 0

Sources_FullContent(docs) ==
    [i \in 1..Len(docs) |->
        [title |-> docs[i].title, content |-> docs[i].content, score |-> docs[i].score]]

\* The entries of a sources event: the first three documents.
Sources(docs) ==
    [i \in 1..Min(3, Len(docs)) |->
        [title |-> docs[i].title, content |-> docs[i].snippet, score |-> docs[i].score]]

RECURSIVE TitleLines(_)
TitleLines(docs) ==
    IF Len(docs) = 0 THEN ""
    ELSE "- " \o docs[1].title \o (IF Len(docs) > 1 THEN "\n" ELSE "") \o TitleLines(Tail(docs))

\* error_context (main.py:673-678)
ErrorContext(docs, ext) ==
    IF TruthyList(docs)
    THEN "Based on our internal documents, I found:\n" \o TitleLines(SubSeq(docs, 1, Min(3, Len(docs))))
    ELSE IF TruthyDict(ext) THEN "Based on web search, I found some initial information."
    ELSE "No specific information was retrieved before the error."

\* error_response (main.py:706-741), the templates shortened to their first line.
ErrorResponse(error_message, error_context) ==
    IF Contains(error_message, "DeploymentNotFound")
    THEN "I apologize, but I'm having trouble accessing our AI model right now. Here's what I found that might help:\n\n"
         \o error_context \o "\n\n**Technical Details:** The AI model deployment was not found."
    ELSE IF Contains(error_message, "BadRequest") /\ Contains(StrLower(error_message), "api versions")
    THEN "I encountered a technical issue, but let me share what I found that might help:\n\n"
         \o error_context \o "\n\n**Technical Details:** API version mismatch."
    ELSE IF Contains(error_message, "Unauthorized") \/ Contains(error_message, "401")
    THEN "Authentication failed with Azure OpenAI. Here's what I found before the error:\n\n"
         \o error_context \o "\n\n**Technical Details:** Please verify your AZURE_OPENAI_KEY is correct and has proper permissions."
    ELSE "I apologize for the technical difficulty. While our team investigates, here's what I found in our documents:\n\n"
         \o error_context \o "\n\n**Error:** " \o SubSeq(error_message, 1, Min(200, Len(error_message))) \o "..."

\* str(chat_error) of the failures the completion provider can raise.
CompletionErrors ==
    {"Error code: 404 - DeploymentNotFound",
     "BadRequest: unsupported API versions",
     "Error code: 401 - Unauthorized",
     "Connection error."}
NoClientError == "'NoneType' object has no attribute 'chat'"

\* The chunks a completion stream can deliver: a text delta, an empty delta,
\* a chunk without choices.
ChunkKinds == {"text", "empty", "nochoices"}
Chunk(kind, i) ==
    [choices |-> kind # "nochoices",
     content |-> IF kind = "text" THEN "tok" \o Digit(i) ELSE ""]

(***************************************************************************)
(* The request: chat.stream_generator, one action per step between two     *)
(* yields or awaits.                                                       *)
(***************************************************************************)
Questions ==
    {"How does GlobeLink's ARR compare to public SaaS companies?",
     "What is CrowdStrike's market cap?",
     "What was the ARR for GlobeLink?",
     "Summarise the quarterly outlook"}

\* The module either initialised both clients and the configuration globals,
\* or left both clients None (main.py:168-184).
Init ==
    /\ pc = "start"
    /\ openai_client \in BOOLEAN
    /\ search_client = openai_client
    /\ message \in Questions
    /\ query_type = ""
    /\ internal_results = <<>>
    /\ external_results = NoneValue
    /\ chat_error = ""
    /\ chunks = <<>>
    /\ disconnected = FALSE
    /\ observed = FALSE
    /\ out = <<>>
    /\ calls = <<>>
    /\ local = NoneValue

Emit(item) == out' = Append(out, item)

\* main.py:538
EmitClassifyingStatus ==
    /\ pc = "start"
    /\ Emit(StatusEvent(StatusClassifying))
    /\ pc' = "classify"
    /\ UNCHANGED <<local, openai_client, search_client, message, query_type, internal_results,
                   external_results, chat_error, chunks, disconnected, observed, calls>>

\* A classifier call that is given the last turn of the history with the
\* question.
Classify_WithHistory ==
    /\ pc = "classify"
    /\ \E outcome \in LLMOutcomes :
         \E r \in {ClassifyQuery(
                     IF local # NoneValue /\ Len(local.conversation_history) > 0
                     THEN local.conversation_history[Len(local.conversation_history)].content
                          \o " " \o message
                     ELSE message,
                     openai_client, outcome)} :
             /\ query_type' = r.intent
             /\ calls' = calls \o <<[svc |-> "classify_query", query |-> message]>>
                         \o (IF r.llm THEN <<[svc |-> "chat.completions", stream |-> FALSE]>>
                             ELSE <<>>)
                         \o <<[svc |-> "return", of |-> "classify_query"]>>
    /\ internal_results' = <<>>
    /\ external_results' = NoneValue
    /\ pc' = "dispatch"
    /\ UNCHANGED <<local, openai_client, search_client, message, chat_error, chunks,
                   disconnected, observed, out>>

\* main.py:539-542
Classify ==
    /\ pc = "classify"
    /\ \E outcome \in LLMOutcomes :
         \E r \in {ClassifyQuery(message, openai_client, outcome)} :
             /\ query_type' = r.intent
             /\ calls' = calls \o <<[svc |-> "classify_query", query |-> message]>>
                         \o (IF r.llm THEN <<[svc |-> "chat.completions", stream |-> FALSE]>>
                             ELSE <<>>)
                         \o <<[svc |-> "return", of |-> "classify_query"]>>
    /\ internal_results' = <<>>
    /\ external_results' = NoneValue
    /\ pc' = "dispatch"
    /\ UNCHANGED <<local, openai_client, search_client, message, chat_error, chunks,
                   disconnected, observed, out>>

\* A dispatch that sends every intent to the internal retriever.
EmitRetrievalStatus_InternalFirst ==
    /\ pc = "dispatch"
    /\ Emit(StatusEvent(StatusInternal))
    /\ pc' = "internal"
    /\ UNCHANGED <<local, openai_client, search_client, message, query_type, internal_results,
                   external_results, chat_error, chunks, disconnected, observed, calls>>

\* main.py:545-547, 550-552, 560-562: the status event of the first retriever
EmitRetrievalStatus ==
    /\ pc = "dispatch"
    /\ IF query_type = "external"
       THEN Emit(StatusEvent(StatusWeb)) /\ pc' = "web"
       ELSE Emit(StatusEvent(StatusInternal)) /\ pc' = "internal"
    /\ UNCHANGED <<local, openai_client, search_client, message, query_type, internal_results,
                   external_results, chat_error, chunks, disconnected, observed, calls>>

\* A hybrid branch that starts the web search while the internal search is
\* still running.
SearchInternal_Concurrent ==
    /\ pc = "internal"
    /\ \E o \in InternalOutcomes :
         /\ internal_results' = SearchInternalDocuments(message, openai_client, search_client, o)
         /\ calls' = calls \o <<[svc |-> "search_internal_documents", query |-> message]>>
                     \o (IF query_type = "hybrid"
                         THEN <<[svc |-> "search_web", query |-> HybridPrefix \o message]>>
                         ELSE <<>>)
                     \o InternalCalls(openai_client, search_client, o)
                     \o <<[svc |-> "return", of |-> "search_internal_documents"]>>
    /\ pc' = IF query_type = "hybrid" THEN "web_status" ELSE "results"
    /\ UNCHANGED <<local, openai_client, search_client, message, query_type, external_results,
                   chat_error, chunks, disconnected, observed, out>>

\* main.py:553, 563
SearchInternal ==
    /\ pc = "internal"
    /\ \E o \in InternalOutcomes :
         /\ internal_results' = SearchInternalDocuments(message, openai_client, search_client, o)
         /\ calls' = calls \o <<[svc |-> "search_internal_documents", query |-> message]>>
                     \o InternalCalls(openai_client, search_client, o)
                     \o <<[svc |-> "return", of |-> "search_internal_documents"]>>
    /\ pc' = IF query_type = "hybrid" THEN "web_status" ELSE "results"
    /\ UNCHANGED <<local, openai_client, search_client, message, query_type, external_results,
                   chat_error, chunks, disconnected, observed, out>>

\* A hybrid branch that goes to the web search without its status event.
EmitWebStatus_Silent ==
    /\ pc = "web_status"
    /\ pc' = "web"
    /\ UNCHANGED <<local, openai_client, search_client, message, query_type, internal_results,
                   external_results, chat_error, chunks, disconnected, observed, out, calls>>

\* main.py:555
EmitWebStatus ==
    /\ pc = "web_status"
    /\ Emit(StatusEvent(StatusWebMarket))
    /\ pc' = "web"
    /\ UNCHANGED <<local, openai_client, search_client, message, query_type, internal_results,
                   external_results, chat_error, chunks, disconnected, observed, calls>>

\* A web search that is always given the raw question.
SearchWeb_RawQuery ==
    /\ pc = "web"
    /\ \E outcome \in WebOutcomes :
         external_results' = SearchWebResult(message, openai_client, outcome)
    /\ calls' = calls \o <<[svc |-> "search_web", query |-> message]>>
                \o WebCalls(message, openai_client)
                \o <<[svc |-> "return", of |-> "search_web"]>>
    /\ pc' = "results"
    /\ UNCHANGED <<local, openai_client, search_client, message, query_type, internal_results,
                   chat_error, chunks, disconnected, observed, out>>

\* main.py:548, 557-558
SearchWeb ==
    /\ pc = "web"
    /\ LET web_query == IF query_type = "hybrid" THEN HybridPrefix \o message ELSE message
       IN  /\ \E outcome \in WebOutcomes :
                external_results' = SearchWebResult(web_query, openai_client, outcome)
           /\ calls' = calls \o <<[svc |-> "search_web", query |-> web_query]>>
                       \o WebCalls(web_query, openai_client)
                       \o <<[svc |-> "return", of |-> "search_web"]>>
    /\ pc' = "results"
    /\ UNCHANGED <<local, openai_client, search_client, message, query_type, internal_results,
                   chat_error, chunks, disconnected, observed, out>>

\* An early exit that emits the message and goes on to the prompt.
EarlyExit_NoReturn ==
    /\ pc = "results"
    /\ \/ query_type = "external" /\ ~TruthyDict(external_results)
          /\ Emit(ContentEvent(NothingFoundExternal))
       \/ query_type = "hybrid" /\ ~TruthyList(internal_results) /\ ~TruthyDict(external_results)
          /\ Emit(ContentEvent(NothingFoundHybrid))
       \/ query_type \notin {"external", "hybrid"} /\ ~TruthyList(internal_results)
          /\ Emit(ContentEvent(NothingFoundInternal))
    /\ pc' = "prompt"
    /\ UNCHANGED <<local, openai_client, search_client, message, query_type, internal_results,
                   external_results, chat_error, chunks, disconnected, observed, calls>>

\* main.py:566-572, 593-599, 638-642: the nothing-found early exit
EarlyExit ==
    /\ pc = "results"
    /\ \/ query_type = "external" /\ ~TruthyDict(external_results)
          /\ Emit(ContentEvent(NothingFoundExternal))
       \/ query_type = "hybrid" /\ ~TruthyList(internal_results) /\ ~TruthyDict(external_results)
          /\ Emit(ContentEvent(NothingFoundHybrid))
       \/ query_type \notin {"external", "hybrid"} /\ ~TruthyList(internal_results)
          /\ Emit(ContentEvent(NothingFoundInternal))
    /\ pc' = "early_done"
    /\ UNCHANGED <<local, openai_client, search_client, message, query_type, internal_results,
                   external_results, chat_error, chunks, disconnected, observed, calls>>

\* main.py:573-574, 600-601, 643-644
EmitEarlyDone ==
    /\ pc = "early_done"
    /\ Emit(DONE)
    /\ pc' = "finished"
    /\ UNCHANGED <<local, openai_client, search_client, message, query_type, internal_results,
                   external_results, chat_error, chunks, disconnected, observed, calls>>

\* main.py:604-613, 646-654: the sources event
EmitSources ==
    /\ pc = "results"
    /\ \/ query_type = "hybrid" /\ TruthyList(internal_results)
       \/ query_type \notin {"external", "hybrid"} /\ TruthyList(internal_results)
    /\ Emit(SourcesEvent(Sources(internal_results)))
    /\ pc' = "prompt"
    /\ UNCHANGED <<local, openai_client, search_client, message, query_type, internal_results,
                   external_results, chat_error, chunks, disconnected, observed, calls>>

\* A hybrid branch that never shows its sources.
SkipSources_Hybrid ==
    /\ pc = "results"
    /\ \/ query_type = "external" /\ TruthyDict(external_results)
       \/ query_type = "hybrid" /\ (TruthyList(internal_results) \/ TruthyDict(external_results))
    /\ pc' = "prompt"
    /\ UNCHANGED <<local, openai_client, search_client, message, query_type, internal_results,
                   external_results, chat_error, chunks, disconnected, observed, out, calls>>

\* main.py:576-591, 604, 615-636: a prompt is built and no sources event is due
SkipSources ==
    /\ pc = "results"
    /\ \/ query_type = "external" /\ TruthyDict(external_results)
       \/ query_type = "hybrid" /\ ~TruthyList(internal_results) /\ TruthyDict(external_results)
    /\ pc' = "prompt"
    /\ UNCHANGED <<local, openai_client, search_client, message, query_type, internal_results,
                   external_results, chat_error, chunks, disconnected, observed, out, calls>>

\* main.py:673-681
EmitGeneratingStatus ==
    /\ pc = "prompt"
    /\ Emit(StatusEvent(StatusGenerating))
    /\ pc' = "create"
    /\ UNCHANGED <<local, openai_client, search_client, message, query_type, internal_results,
                   external_results, chat_error, chunks, disconnected, observed, calls>>

\* main.py:685-695: the call is issued and returns a stream
CreateCompletion ==
    /\ pc = "create"
    /\ openai_client
    /\ calls' = Append(calls, [svc |-> "chat.completions", stream |-> TRUE])
    /\ pc' = "loop"
    /\ UNCHANGED <<local, openai_client, search_client, message, query_type, internal_results,
                   external_results, chat_error, chunks, disconnected, observed, out>>

\* A completion call that is issued again after it failed.
CreateCompletionFails_Retry ==
    /\ pc = "create"
    /\ openai_client
    /\ calls' = Append(calls, [svc |-> "chat.completions", stream |-> TRUE])
    /\ UNCHANGED <<local, pc, openai_client, search_client, message, query_type, internal_results,
                   external_results, chat_error, chunks, disconnected, observed, out>>

\* main.py:685-695, 705-706: the call raises (without a client, before it is issued)
CreateCompletionFails ==
    /\ pc = "create"
    /\ \/ /\ ~openai_client
          /\ chat_error' = NoClientError
          /\ calls' = calls
       \/ /\ openai_client
          /\ chat_error' \in CompletionErrors
          /\ calls' = Append(calls, [svc |-> "chat.completions", stream |-> TRUE])
    /\ pc' = "handler"
    /\ UNCHANGED <<local, openai_client, search_client, message, query_type, internal_results,
                   external_results, chunks, disconnected, observed, out>>

\* A loop that emits a content event for every chunk that has choices.
ForwardDelta_EmptyToo ==
    /\ pc = "loop"
    /\ Len(chunks) < MaxChunks
    /\ ~disconnected
    /\ \E kind \in ChunkKinds :
         LET chunk == Chunk(kind, Len(chunks) + 1)
         IN  /\ chunks' = Append(chunks, chunk)
             /\ out' = IF chunk.choices
                       THEN Append(out, ContentEvent(chunk.content))
                       ELSE out
    /\ UNCHANGED <<local, pc, openai_client, search_client, message, query_type, internal_results,
                   external_results, chat_error, disconnected, observed, calls>>

\* main.py:697-703: a chunk arrives and the caller is connected
ForwardDelta ==
    /\ pc = "loop"
    /\ Len(chunks) < MaxChunks
    /\ ~disconnected
    /\ \E kind \in ChunkKinds :
         LET chunk == Chunk(kind, Len(chunks) + 1)
         IN  /\ chunks' = Append(chunks, chunk)
             /\ out' = IF chunk.choices /\ chunk.content # ""
                       THEN Append(out, ContentEvent(chunk.content))
                       ELSE out
    /\ UNCHANGED <<local, pc, openai_client, search_client, message, query_type, internal_results,
                   external_results, chat_error, disconnected, observed, calls>>

\* A loop that forwards the delta before it looks at the connection.
ObserveDisconnect_AfterForward ==
    /\ pc = "loop"
    /\ Len(chunks) < MaxChunks
    /\ disconnected
    /\ \E kind \in ChunkKinds :
         LET chunk == Chunk(kind, Len(chunks) + 1)
         IN  /\ chunks' = Append(chunks, chunk)
             /\ out' = IF chunk.choices /\ chunk.content # ""
                       THEN Append(out, ContentEvent(chunk.content))
                       ELSE out
    /\ observed' = TRUE
    /\ pc' = "done"
    /\ UNCHANGED <<local, openai_client, search_client, message, query_type, internal_results,
                   external_results, chat_error, disconnected, calls>>

\* main.py:697-700: a chunk arrives and is_disconnected() answers True
ObserveDisconnect ==
    /\ pc = "loop"
    /\ Len(chunks) < MaxChunks
    /\ disconnected
    /\ \E kind \in ChunkKinds : chunks' = Append(chunks, Chunk(kind, Len(chunks) + 1))
    /\ observed' = TRUE
    /\ pc' = "done"
    /\ UNCHANGED <<local, openai_client, search_client, message, query_type, internal_results,
                   external_results, chat_error, disconnected, out, calls>>

\* main.py:697: the stream is exhausted
StreamEnds ==
    /\ pc = "loop"
    /\ pc' = "done"
    /\ UNCHANGED <<local, openai_client, search_client, message, query_type, internal_results,
                   external_results, chat_error, chunks, disconnected, observed, out, calls>>

\* A failed stream after which the prompt is built and the call issued again.
StreamFails_Restart ==
    /\ pc = "loop"
    /\ chat_error' \in CompletionErrors
    /\ pc' = "prompt"
    /\ UNCHANGED <<local, openai_client, search_client, message, query_type, internal_results,
                   external_results, chunks, disconnected, observed, out, calls>>

\* main.py:697, 705-706: reading the next chunk raises
StreamFails ==
    /\ pc = "loop"
    /\ chat_error' \in CompletionErrors
    /\ pc' = "handler"
    /\ UNCHANGED <<local, openai_client, search_client, message, query_type, internal_results,
                   external_results, chunks, disconnected, observed, out, calls>>

\* A handler that reports the failure as an error event.
EmitExplanation_AsError ==
    /\ pc = "handler"
    /\ Emit(ErrorEvent(chat_error))
    /\ pc' = "done"
    /\ UNCHANGED <<local, openai_client, search_client, message, query_type, internal_results,
                   external_results, chat_error, chunks, disconnected, observed, calls>>

\* main.py:705-744: the completion handler
EmitExplanation ==
    /\ pc = "handler"
    /\ Emit(ContentEvent(ErrorResponse(chat_error, ErrorContext(internal_results, external_results))))
    /\ pc' = "done"
    /\ UNCHANGED <<local, openai_client, search_client, message, query_type, internal_results,
                   external_results, chat_error, chunks, disconnected, observed, calls>>

\* A generator that returns after the delta loop without the sentinel.
EmitDone_Missing ==
    /\ pc = "done"
    /\ pc' = "finished"
    /\ UNCHANGED <<local, openai_client, search_client, message, query_type, internal_results,
                   external_results, chat_error, chunks, disconnected, observed, out, calls>>

\* main.py:746
EmitDone ==
    /\ pc = "done"
    /\ Emit(DONE)
    /\ pc' = "finished"
    /\ UNCHANGED <<local, openai_client, search_client, message, query_type, internal_results,
                   external_results, chat_error, chunks, disconnected, observed, calls>>

\* The caller goes away (request.is_disconnected() answers True from now on).
Disconnect ==
    /\ pc # "finished"
    /\ ~disconnected
    /\ disconnected' = TRUE
    /\ UNCHANGED <<local, pc, openai_client, search_client, message, query_type, internal_results,
                   external_results, chat_error, chunks, observed, out, calls>>

\* The steps of the generator.
GeneratorStep ==
    \/ EmitClassifyingStatus
    \/ Classify
    \/ EmitRetrievalStatus
    \/ SearchInternal
    \/ EmitWebStatus
    \/ SearchWeb
    \/ EmitSources
    \/ SkipSources
    \/ EmitGeneratingStatus
    \/ CreateCompletion
    \/ CreateCompletionFails
    \/ ForwardDelta
    \/ ObserveDisconnect
    \/ StreamEnds
    \/ StreamFails
    \/ EmitExplanation
    \/ EmitDone
    \/ EarlyExit
    \/ EmitEarlyDone

Next ==
    \/ GeneratorStep
    \/ Disconnect

Spec == Init /\ [][Next]_vars

\* The generator is resumed whenever it can take a step: every provider
\* call returns or fails, and the completion stream ends or fails.
SpecLive == Spec /\ WF_vars(GeneratorStep)

(***************************************************************************)
(* The request when a step outside the completion try block raises: the    *)
(* top-level handler of stream_generator (main.py:748-752).  The steps     *)
(* that call the classifier or a retriever, or that format retrieved data, *)
(* are the ones taken to raise.                                            *)
(***************************************************************************)
\* An exception that also escapes the completion step and the final yield.
UnexpectedException_AfterContent ==
    /\ pc \in {"classify", "internal", "web", "results", "prompt", "loop", "done", "early_done"}
    /\ pc' = "except"
    /\ UNCHANGED <<local, openai_client, search_client, message, query_type, internal_results,
                   external_results, chat_error, chunks, disconnected, observed, out, calls>>

UnexpectedException ==
    /\ pc \in {"classify", "internal", "web", "results", "prompt"}
    /\ pc' = "except"
    /\ UNCHANGED <<local, openai_client, search_client, message, query_type, internal_results,
                   external_results, chat_error, chunks, disconnected, observed, out, calls>>

\* A top-level handler that only logs.
EmitError_LogOnly ==
    /\ pc = "except"
    /\ pc' = "except_done"
    /\ UNCHANGED <<local, openai_client, search_client, message, query_type, internal_results,
                   external_results, chat_error, chunks, disconnected, observed, out, calls>>

\* main.py:748-751
EmitError ==
    /\ pc = "except"
    /\ Emit(ErrorEvent("An unexpected error occurred: boom"))
    /\ pc' = "except_done"
    /\ UNCHANGED <<local, openai_client, search_client, message, query_type, internal_results,
                   external_results, chat_error, chunks, disconnected, observed, calls>>

\* main.py:752
EmitDoneAfterError ==
    /\ pc = "except_done"
    /\ Emit(DONE)
    /\ pc' = "finished"
    /\ UNCHANGED <<local, openai_client, search_client, message, query_type, internal_results,
                   external_results, chat_error, chunks, disconnected, observed, calls>>

\* The steps of the top-level handler.
HandlerStep ==
    \/ EmitError
    \/ EmitDoneAfterError

NextFault ==
    \/ Next
    \/ UnexpectedException
    \/ HandlerStep

SpecFault == Init /\ [][NextFault]_vars

(***************************************************************************)
(* classify_query on its own, over questions put together from fragments.  *)
(***************************************************************************)
Fragments == {"ARR", "Tesla", "vs", "carry", "Hello ", "Benchmark"}

RECURSIVE FragmentStrings(_)
FragmentStrings(n) ==
    IF n = 0 THEN {""}
    ELSE FragmentStrings(n - 1)
         \cup {s \o f : s \in FragmentStrings(n - 1), f \in Fragments}

ClassifyInputs == Questions \cup FragmentStrings(MaxFragments)

InitClassify ==
    /\ pc = "cq_call"
    /\ openai_client \in BOOLEAN
    /\ search_client = openai_client
    /\ message \in ClassifyInputs
    /\ query_type = ""
    /\ internal_results = <<>>
    /\ external_results = NoneValue
    /\ chat_error = ""
    /\ chunks = <<>>
    /\ disconnected = FALSE
    /\ observed = FALSE
    /\ out = <<>>
    /\ calls = <<>>
    /\ local = NoneValue

\* main.py:214-288: one call of classify_query(message); local keeps what
\* the model provider did when the fallback path was taken.
ClassifyCall ==
    /\ pc = "cq_call"
    /\ \E outcome \in LLMOutcomes :
         \E r \in {ClassifyQuery(message, openai_client, outcome)} :
             /\ query_type' = r.intent
             /\ calls' = IF r.llm THEN Append(calls, [svc |-> "chat.completions", stream |-> FALSE])
                         ELSE calls
             /\ local' = IF r.fallback THEN [response |-> outcome] ELSE NoneValue
    /\ pc' = "cq_returned"
    /\ UNCHANGED <<openai_client, search_client, message, internal_results, external_results,
                   chat_error, chunks, disconnected, observed, out>>

NextClassify == ClassifyCall

SpecClassify == InitClassify /\ [][NextClassify]_vars

(***************************************************************************)
(* The operations below the orchestrator, each called on its own and       *)
(* taken step by step: search_internal_documents (with get_embedding),     *)
(* search_web and the /healthz probe.                                      *)
(***************************************************************************)
EmbedErrors == {"Connection error.", "Error code: 429"}
SearchErrors == {"Index not found", "Request timed out"}
ServiceUnavailable == "503: OpenAI service unavailable"
HitError == "'content'"

\* main.py:210: the delay before the retry after attempt `attempt`, in ms.
\* A wait that does not grow with the attempt.
BackoffMs_Constant(attempt) == 500

BackoffMs(attempt) == 500 * (2 ^ attempt)

SidLocals ==
    [op |-> "sid", attempt |-> 0, sleeps |-> <<>>, hits |-> 0,
     documents |-> <<>>, raised |-> ""]

HzLocals ==
    [op |-> "hz", attempt |-> 0, sleeps |-> <<>>, raised |-> "",
     checks |-> [api |-> "ok", azure_search |-> "unknown",
                 azure_openai |-> "unknown", perplexity |-> "unknown"],
     status |-> ""]

WebLocals == [op |-> "web", outcome |-> ""]

InitOps ==
    /\ openai_client \in BOOLEAN
    /\ search_client = openai_client
    /\ message \in Questions
    /\ \/ pc = "sid_call" /\ local = SidLocals
       \/ pc = "web_call" /\ local = WebLocals
       \/ pc = "hz_call" /\ local = HzLocals
    /\ query_type = ""
    /\ internal_results = <<>>
    /\ external_results = NoneValue
    /\ chat_error = ""
    /\ chunks = <<>>
    /\ disconnected = FALSE
    /\ observed = FALSE
    /\ out = <<>>
    /\ calls = <<>>

OpsFrame ==
    UNCHANGED <<openai_client, search_client, message, query_type, chat_error,
                chunks, disconnected, observed, out>>

\* main.py:387: search_internal_documents awaits get_embedding(query)
SidEnter ==
    /\ pc = "sid_call"
    /\ pc' = "ge_call"
    /\ UNCHANGED <<local, internal_results, external_results, calls>>
    /\ OpsFrame

\* Where get_embedding's caller continues when it returns / when it raises.
AfterEmbedding(op) == IF op = "sid" THEN "sid_search" ELSE "hz_embed_ok"
AfterEmbeddingRaised(op) == IF op = "sid" THEN "sid_except" ELSE "hz_embed_error"

\* main.py:196-198: no client, HTTPException(503) before any provider call
EmbedUnavailable ==
    /\ pc = "ge_call"
    /\ ~openai_client
    /\ local' = [local EXCEPT !.raised = ServiceUnavailable]
    /\ pc' = AfterEmbeddingRaised(local.op)
    /\ UNCHANGED <<internal_results, external_results, calls>>
    /\ OpsFrame

\* main.py:200-206: an attempt that succeeds
EmbedAttemptOk ==
    /\ pc = "ge_call"
    /\ openai_client
    /\ calls' = Append(calls, [svc |-> "embeddings"])
    /\ pc' = AfterEmbedding(local.op)
    /\ UNCHANGED <<local, internal_results, external_results>>
    /\ OpsFrame

\* main.py:207-210: an attempt that fails and is followed by a sleep
EmbedAttemptRetry ==
    /\ pc = "ge_call"
    /\ openai_client
    /\ local.attempt < max_retries - 1
    /\ calls' = Append(calls, [svc |-> "embeddings"])
    /\ local' = [local EXCEPT !.sleeps = Append(@, BackoffMs(local.attempt)),
                              !.attempt = @ + 1]
    /\ UNCHANGED <<pc, internal_results, external_results>>
    /\ OpsFrame

\* main.py:207-212: the last attempt fails and its exception is re-raised
EmbedAttemptRaises ==
    /\ pc = "ge_call"
    /\ openai_client
    /\ local.attempt = max_retries - 1
    /\ calls' = Append(calls, [svc |-> "embeddings"])
    /\ \E e \in EmbedErrors : local' = [local EXCEPT !.raised = e]
    /\ pc' = AfterEmbeddingRaised(local.op)
    /\ UNCHANGED <<internal_results, external_results>>
    /\ OpsFrame

\* main.py:390-397: the vector search answers with n hits (the embedding was
\* obtained, so both clients are initialised)
VectorSearchOk ==
    /\ pc = "sid_search"
    /\ search_client
    /\ calls' = Append(calls, [svc |-> "vector_search"])
    /\ \E n \in 0..MaxDocs : local' = [local EXCEPT !.hits = n]
    /\ pc' = "sid_hits"
    /\ UNCHANGED <<internal_results, external_results>>
    /\ OpsFrame

\* main.py:390-397: the vector search fails
VectorSearchFails ==
    /\ pc = "sid_search"
    /\ search_client
    /\ calls' = Append(calls, [svc |-> "vector_search"])
    /\ \E e \in SearchErrors : local' = [local EXCEPT !.raised = e]
    /\ pc' = "sid_except"
    /\ UNCHANGED <<internal_results, external_results>>
    /\ OpsFrame

\* A loop that puts each new document in front of the earlier ones.
ProcessHit_Prepend ==
    /\ pc = "sid_hits"
    /\ Len(local.documents) < local.hits
    /\ local' = [local EXCEPT !.documents =
                     <<Document(Hit(Len(local.documents) + 1), message)>> \o @]
    /\ UNCHANGED <<pc, internal_results, external_results, calls>>
    /\ OpsFrame

\* main.py:397-441: one pass of the loop over the hits
ProcessHit ==
    /\ pc = "sid_hits"
    /\ Len(local.documents) < local.hits
    /\ local' = [local EXCEPT !.documents =
                     Append(@, Document(Hit(Len(local.documents) + 1), message))]
    /\ UNCHANGED <<pc, internal_results, external_results, calls>>
    /\ OpsFrame

\* main.py:397-441: a hit whose processing raises (a hit without content)
ProcessHitRaises ==
    /\ pc = "sid_hits"
    /\ Len(local.documents) < local.hits
    /\ local' = [local EXCEPT !.raised = HitError]
    /\ pc' = "sid_except"
    /\ UNCHANGED <<internal_results, external_results, calls>>
    /\ OpsFrame

\* main.py:443-444: return documents
SidReturn ==
    /\ pc = "sid_hits"
    /\ Len(local.documents) = local.hits
    /\ internal_results' = local.documents
    /\ pc' = "sid_returned"
    /\ UNCHANGED <<local, external_results, calls>>
    /\ OpsFrame

SidExcept_Reraise ==
    /\ pc = "sid_except"
    /\ pc' = "sid_raised"
    /\ UNCHANGED <<local, internal_results, external_results, calls>>
    /\ OpsFrame

\* An except branch that returns the documents built so far.
SidExcept_ReturnsPartial ==
    /\ pc = "sid_except"
    /\ internal_results' = local.documents
    /\ pc' = "sid_returned"
    /\ UNCHANGED <<local, external_results, calls>>
    /\ OpsFrame

\* main.py:445-447: except Exception: return []
SidExcept ==
    /\ pc = "sid_except"
    /\ internal_results' = <<>>
    /\ pc' = "sid_returned"
    /\ UNCHANGED <<local, external_results, calls>>
    /\ OpsFrame

SearchInternalStep ==
    \/ SidEnter
    \/ EmbedUnavailable
    \/ EmbedAttemptOk
    \/ EmbedAttemptRetry
    \/ EmbedAttemptRaises
    \/ VectorSearchOk
    \/ VectorSearchFails
    \/ ProcessHit
    \/ ProcessHitRaises
    \/ SidReturn
    \/ SidExcept

\* main.py:290-331: one call of search_web(message); local keeps what the
\* web provider did.
WebCall ==
    /\ pc = "web_call"
    /\ \E outcome \in WebOutcomes :
         /\ external_results' = SearchWebResult(message, openai_client, outcome)
         /\ local' = [local EXCEPT !.outcome = outcome]
    /\ calls' = calls \o WebCalls(message, openai_client)
    /\ pc' = "web_returned"
    /\ UNCHANGED internal_results
    /\ OpsFrame

\* main.py:494-501: the index probe of /healthz
HzSearchNotInitialized ==
    /\ pc = "hz_call"
    /\ ~search_client
    /\ local' = [local EXCEPT !.checks.azure_search = "not initialized"]
    /\ pc' = "hz_openai"
    /\ UNCHANGED <<internal_results, external_results, calls>>
    /\ OpsFrame

HzSearchOk ==
    /\ pc = "hz_call"
    /\ search_client
    /\ calls' = Append(calls, [svc |-> "search_probe"])
    /\ local' = [local EXCEPT !.checks.azure_search = "ok"]
    /\ pc' = "hz_openai"
    /\ UNCHANGED <<internal_results, external_results>>
    /\ OpsFrame

HzSearchError_Abort ==
    /\ pc = "hz_call"
    /\ search_client
    /\ calls' = Append(calls, [svc |-> "search_probe"])
    /\ \E e \in SearchErrors :
         local' = [local EXCEPT !.checks.azure_search = "error: " \o e]
    /\ pc' = "hz_status"
    /\ UNCHANGED <<internal_results, external_results>>
    /\ OpsFrame

HzSearchError ==
    /\ pc = "hz_call"
    /\ search_client
    /\ calls' = Append(calls, [svc |-> "search_probe"])
    /\ \E e \in SearchErrors :
         local' = [local EXCEPT !.checks.azure_search = "error: " \o e]
    /\ pc' = "hz_openai"
    /\ UNCHANGED <<internal_results, external_results>>
    /\ OpsFrame

\* main.py:503-512: the embedding probe of /healthz
HzOpenAINotInitialized ==
    /\ pc = "hz_openai"
    /\ ~openai_client
    /\ local' = [local EXCEPT !.checks.azure_openai = "not initialized"]
    /\ pc' = "hz_status"
    /\ UNCHANGED <<internal_results, external_results, calls>>
    /\ OpsFrame

HzEmbedEnter ==
    /\ pc = "hz_openai"
    /\ openai_client
    /\ pc' = "ge_call"
    /\ UNCHANGED <<local, internal_results, external_results, calls>>
    /\ OpsFrame

HzEmbedOk ==
    /\ pc = "hz_embed_ok"
    /\ local' = [local EXCEPT !.checks.azure_openai = "ok"]
    /\ pc' = "hz_status"
    /\ UNCHANGED <<internal_results, external_results, calls>>
    /\ OpsFrame

HzEmbedError ==
    /\ pc = "hz_embed_error"
    /\ local' = [local EXCEPT !.checks.azure_openai = "error: " \o local.raised]
    /\ pc' = "hz_status"
    /\ UNCHANGED <<internal_results, external_results, calls>>
    /\ OpsFrame

\* main.py:514-527: the overall status
OverallStatus(checks) ==
    IF \A k \in DOMAIN checks : checks[k] = "ok" \/ checks[k] = "unknown"
    THEN "ok" ELSE "degraded"

HzReturn ==
    /\ pc = "hz_status"
    /\ local' = [local EXCEPT !.status = OverallStatus(local.checks)]
    /\ pc' = "hz_returned"
    /\ UNCHANGED <<internal_results, external_results, calls>>
    /\ OpsFrame

HealthzStep ==
    \/ HzSearchNotInitialized
    \/ HzSearchOk
    \/ HzSearchError
    \/ HzOpenAINotInitialized
    \/ HzEmbedEnter
    \/ HzEmbedOk
    \/ HzEmbedError
    \/ HzReturn

NextOps == SearchInternalStep \/ WebCall \/ HealthzStep

SpecOps == InitOps /\ [][NextOps]_vars

(***************************************************************************)
(* clean_text and extract_snippet called on their own.                     *)
(***************************************************************************)
\* a, B, space, newline, e-acute
TextAlphabet == {97, 66, 32, 10, 233}

RECURSIVE TextsUpTo(_)
TextsUpTo(n) ==
    IF n = 0 THEN {<<>>}
    ELSE TextsUpTo(n - 1) \cup {Append(t, c) : t \in TextsUpTo(n - 1), c \in TextAlphabet}

SentencePool ==
    {ToCodes("GlobeLink ARR grew."), ToCodes("Revenue was flat!"),
     ToCodes("arr and revenue rose.")}

RECURSIVE Paragraphs(_)
Paragraphs(n) ==
    IF n = 1 THEN SentencePool
    ELSE Paragraphs(n - 1)
         \cup {p \o <<32>> \o s : p \in Paragraphs(n - 1), s \in SentencePool}

\* A text longer than the fallback's 500 characters, without a sentence end.
LongText ==
    [i \in 1..(FallbackChars + MaxText) |-> IF i % 7 = 0 THEN 32 ELSE 97 + (i % 26)]

SnippetTexts == Paragraphs(MaxSentences) \cup {<<>>, <<32, 10>>, LongText}

SnippetQueries == {ToCodes("ARR"), ToCodes("revenue arr"), ToCodes("Tesla"), <<>>}

InitText ==
    /\ \/ /\ pc = "ct_call"
          /\ message \in TextsUpTo(MaxText)
          /\ local = [op |-> "ct", result |-> <<>>, again |-> <<>>]
       \/ /\ pc = "es_call"
          /\ message \in SnippetTexts
          /\ \E q \in SnippetQueries :
                local = [op |-> "es", query |-> q, tokenizer_ok |-> TRUE,
                         result |-> <<>>, best |-> 0]
    /\ openai_client = TRUE
    /\ search_client = TRUE
    /\ query_type = ""
    /\ internal_results = <<>>
    /\ external_results = NoneValue
    /\ chat_error = ""
    /\ chunks = <<>>
    /\ disconnected = FALSE
    /\ observed = FALSE
    /\ out = <<>>
    /\ calls = <<>>

TextFrame ==
    UNCHANGED <<openai_client, search_client, message, query_type, internal_results,
                external_results, chat_error, chunks, disconnected, observed, out, calls>>

\* main.py:333-342: one call of clean_text(message)
CleanTextCall ==
    /\ pc = "ct_call"
    /\ local' = [local EXCEPT !.result = CleanText(message)]
    /\ pc' = "ct_returned"
    /\ TextFrame

\* main.py:344-382: one call of extract_snippet(message, query); the
\* tokenizer answers or raises.
ExtractSnippetCall ==
    /\ pc = "es_call"
    /\ \E ok \in BOOLEAN :
         \E r \in {ExtractSnippet(message, local.query, ok)} :
             local' = [local EXCEPT !.tokenizer_ok = ok, !.result = r.snippet,
                                    !.best = r.best]
    /\ pc' = "es_returned"
    /\ TextFrame

\* main.py:333-342: clean_text called on the text it has returned
CleanTextAgain ==
    /\ pc = "ct_returned"
    /\ local' = [local EXCEPT !.again = CleanText(local.result)]
    /\ pc' = "ct_twice"
    /\ TextFrame

NextText == CleanTextCall \/ CleanTextAgain \/ ExtractSnippetCall

SpecText == InitText /\ [][NextText]_vars

(***************************************************************************)
(* The start of the process: the import of main.py up to the point where   *)
(* requests are served.                                                    *)
(***************************************************************************)
required_vars ==
    <<"OPENAI_API_TYPE", "OPENAI_API_VERSION", "AZURE_OPENAI_ENDPOINT", "AZURE_OPENAI_KEY",
      "AZURE_OPENAI_EMBED_MODEL", "AZURE_GPT4O_DEPLOYMENT", "AZURE_SEARCH_ENDPOINT",
      "AZURE_SEARCH_KEY", "AZURE_SEARCH_INDEX", "PERPLEXITY_API_KEY">>

RequiredNames == {required_vars[i] : i \in DOMAIN required_vars}

\* What os.getenv answers: None for a variable that is not set.
Unset == "<unset>"

\* The environments in which at most MaxUnset required variables are
\* not set or empty.
Environments ==
    UNION {{[v \in RequiredNames |-> IF v \in S THEN f[v] ELSE "value"] : f \in [S -> {Unset, ""}]}
           : S \in {T \in SUBSET RequiredNames : Cardinality(T) <= MaxUnset}}

ValidateEnv_UnsetOnly(environ) ==
    SelectSeq(required_vars, LAMBDA var : environ[var] = Unset)

\* main.py:76-79: missing_vars, the variables for which  not os.getenv(var)
ValidateEnv(environ) ==
    SelectSeq(required_vars, LAMBDA var : environ[var] = Unset \/ environ[var] = "")

InitStartup ==
    /\ pc = "validate_env"
    /\ \E environ \in Environments :
         local = [op |-> "startup", environ |-> environ, missing_vars |-> <<>>,
                  exit_code |-> -1, app |-> FALSE, served |-> FALSE]
    /\ openai_client = FALSE
    /\ search_client = FALSE
    /\ message = ""
    /\ query_type = ""
    /\ internal_results = <<>>
    /\ external_results = NoneValue
    /\ chat_error = ""
    /\ chunks = <<>>
    /\ disconnected = FALSE
    /\ observed = FALSE
    /\ out = <<>>
    /\ calls = <<>>

StartupFrame ==
    UNCHANGED <<message, query_type, internal_results, external_results, chat_error,
                chunks, disconnected, observed, out, calls>>

\* main.py:61-91: validate_env() with missing variables: sys.exit(1)
ValidateEnvExits ==
    /\ pc = "validate_env"
    /\ \E missing_vars \in {ValidateEnv(local.environ)} :
         /\ Len(missing_vars) > 0
         /\ local' = [local EXCEPT !.missing_vars = missing_vars, !.exit_code = 1]
    /\ pc' = "exited"
    /\ UNCHANGED <<openai_client, search_client>>
    /\ StartupFrame

\* main.py:61-91: validate_env() returns
ValidateEnvPasses ==
    /\ pc = "validate_env"
    /\ Len(ValidateEnv(local.environ)) = 0
    /\ pc' = "create_app"
    /\ UNCHANGED <<local, openai_client, search_client>>
    /\ StartupFrame

\* main.py:94-106: app = FastAPI(...)
CreateApp ==
    /\ pc = "create_app"
    /\ local' = [local EXCEPT !.app = TRUE]
    /\ pc' = "init_clients"
    /\ UNCHANGED <<openai_client, search_client>>
    /\ StartupFrame

\* main.py:168-184: both clients are created, or both are left None
InitializeClients ==
    /\ pc = "init_clients"
    /\ \E ok \in BOOLEAN : openai_client' = ok /\ search_client' = ok
    /\ pc' = "serving"
    /\ UNCHANGED local
    /\ StartupFrame

\* The server hands a first request to a handler of the imported module.
ServeRequest ==
    /\ pc = "serving"
    /\ ~local.served
    /\ local' = [local EXCEPT !.served = TRUE]
    /\ UNCHANGED <<pc, openai_client, search_client>>
    /\ StartupFrame

NextStartup ==
    \/ ValidateEnvExits
    \/ ValidateEnvPasses
    \/ CreateApp
    \/ InitializeClients
    \/ ServeRequest

SpecStartup == InitStartup /\ [][NextStartup]_vars

(***************************************************************************)
(* Two requests served by the one event loop.  The variables of the        *)
(* request hold the task that is running; local holds the identity of      *)
(* that task and the suspended task's request object and generator frame.  *)
(* The module globals openai_client and search_client are the only state   *)
(* both tasks see; the handler assigns none of them.                       *)
(***************************************************************************)
\* The request object and the frame of stream_generator of the running task.
ActiveRequest ==
    [pc |-> pc, message |-> message, query_type |-> query_type,
     internal_results |-> internal_results, external_results |-> external_results,
     chat_error |-> chat_error, chunks |-> chunks, disconnected |-> disconnected,
     observed |-> observed, out |-> out, calls |-> calls]

\* A request that has been accepted and whose generator has not started.
NewRequest(question) ==
    [pc |-> "start", message |-> question, query_type |-> "",
     internal_results |-> <<>>, external_results |-> NoneValue,
     chat_error |-> "", chunks |-> <<>>, disconnected |-> FALSE,
     observed |-> FALSE, out |-> <<>>, calls |-> <<>>]

FirstQuestions == {"How does GlobeLink's ARR compare to public SaaS companies?"}

SecondQuestions == {"What was the ARR for GlobeLink?"}

InitPair ==
    /\ openai_client \in BOOLEAN
    /\ search_client = openai_client
    /\ pc = "start"
    /\ message \in FirstQuestions
    /\ query_type = ""
    /\ internal_results = <<>>
    /\ external_results = NoneValue
    /\ chat_error = ""
    /\ chunks = <<>>
    /\ disconnected = FALSE
    /\ observed = FALSE
    /\ out = <<>>
    /\ calls = <<>>
    /\ \E q \in SecondQuestions : local = [id |-> 1, parked |-> NewRequest(q)]

\* What the providers are taken to answer to one request of a pair.
PairBound ==
    /\ Len(chunks) <= MaxPairChunks
    /\ Len(internal_results) <= MaxPairDocs
    /\ Cardinality({i \in DOMAIN calls : calls[i].svc = "embeddings"}) <= MaxPairAttempts

\* An event loop in which query_type is a module global of both tasks.
Switch_SharedIntent ==
    /\ local # NoneValue
    /\ local' = [id |-> 3 - local.id, parked |-> ActiveRequest]
    /\ pc' = local.parked.pc
    /\ message' = local.parked.message
    /\ internal_results' = local.parked.internal_results
    /\ external_results' = local.parked.external_results
    /\ chat_error' = local.parked.chat_error
    /\ chunks' = local.parked.chunks
    /\ disconnected' = local.parked.disconnected
    /\ observed' = local.parked.observed
    /\ out' = local.parked.out
    /\ calls' = local.parked.calls
    /\ UNCHANGED <<openai_client, search_client, query_type>>

\* The event loop suspends the running task and resumes the other one.
Switch ==
    /\ local # NoneValue
    /\ local' = [id |-> 3 - local.id, parked |-> ActiveRequest]
    /\ pc' = local.parked.pc
    /\ message' = local.parked.message
    /\ query_type' = local.parked.query_type
    /\ internal_results' = local.parked.internal_results
    /\ external_results' = local.parked.external_results
    /\ chat_error' = local.parked.chat_error
    /\ chunks' = local.parked.chunks
    /\ disconnected' = local.parked.disconnected
    /\ observed' = local.parked.observed
    /\ out' = local.parked.out
    /\ calls' = local.parked.calls
    /\ UNCHANGED <<openai_client, search_client>>

\* A step of the running task.
RunningStep == GeneratorStep /\ PairBound'

NextPair ==
    \/ RunningStep
    \/ Disconnect
    \/ Switch

SpecPair == InitPair /\ [][NextPair]_vars

(***************************************************************************)
(* The request with its conversation history: local holds the            *)
(* conversation_history field of the ChatRequest (main.py:188-190).      *)
(***************************************************************************)
Histories ==
    {<<>>,
     <<[role |-> "user", content |-> "What is Tesla's stock price today?"],
       [role |-> "assistant", content |-> "Tesla trades on NASDAQ."]>>}

InitHistory ==
    /\ pc = "start"
    /\ openai_client \in BOOLEAN
    /\ search_client = openai_client
    /\ message \in Questions
    /\ local \in [op : {"chat"}, conversation_history : Histories]
    /\ query_type = ""
    /\ internal_results = <<>>
    /\ external_results = NoneValue
    /\ chat_error = ""
    /\ chunks = <<>>
    /\ disconnected = FALSE
    /\ observed = FALSE
    /\ out = <<>>
    /\ calls = <<>>

SpecHistory == InitHistory /\ [][Next]_vars

(***************************************************************************)
(* The event loop during the calls of one request.  pc is the place of the *)
(* request's task in its sequence of calls, local.waiting the call it is   *)
(* waiting in ("": none), local.other the number of steps another          *)
(* request's task has been given.  The clients are the synchronous         *)
(* AzureOpenAI and SearchClient (main.py:11, 13): their calls are made     *)
(* without await and return only when the answer is there.                 *)
(***************************************************************************)
\* The calls and waits of a request: the provider, and whether the task
\* gives the event loop away while it waits.
\*   classification   main.py:272  openai_client.chat.completions.create(...)
\*   embeddings       main.py:202  openai_client.embeddings.create(...)
\*   sleep            main.py:210  await asyncio.sleep(...)
\*   vector_search    main.py:390, 397  search_client.search(...), for result in results
\*   perplexity       main.py:294  await client.post(...)
\*   chat.completions main.py:685  openai_client.chat.completions.create(...)
\*   stream           main.py:697  for chunk in stream
\*   is_disconnected  main.py:698  await request.is_disconnected()
\*   yield            main.py:703  yield of a content event
NetworkCalls ==
    {"classification", "embeddings", "vector_search", "perplexity", "chat.completions", "stream"}

Suspends(kind) == kind \in {"sleep", "perplexity", "is_disconnected", "yield"}

\* Another task can be run: the request's task is suspended, or has ended.
\* Where the task goes on once the intent is known ("": the fallback of
\* the classifier is due).
FirstRetrieval(intent) ==
    IF intent = "" THEN "lp_classify"
    ELSE IF intent = "external" THEN "lp_web" ELSE "lp_embed"

LoopFree == pc = "lp_done" \/ (local.waiting # "" /\ Suspends(local.waiting))

InitLoop ==
    /\ openai_client = TRUE
    /\ search_client = TRUE
    /\ message \in Questions
    /\ query_type = (IF LexicalTier(message) = "none" THEN "" ELSE LexicalTier(message))
    /\ pc = FirstRetrieval(query_type)
    /\ local = [op |-> "loop", waiting |-> "", attempt |-> 0, other |-> 0]
    /\ internal_results = <<>>
    /\ external_results = NoneValue
    /\ chat_error = ""
    /\ chunks = <<>>
    /\ disconnected = FALSE
    /\ observed = FALSE
    /\ out = <<>>
    /\ calls = <<>>

LoopFrame ==
    UNCHANGED <<openai_client, search_client, message, internal_results,
                external_results, chat_error, disconnected, observed, out>>

\* The call or wait the task makes at place p.
CallAt(p) ==
    IF p = "lp_classify" THEN "classification"
    ELSE IF p = "lp_embed" THEN "embeddings"
    ELSE IF p = "lp_sleep" THEN "sleep"
    ELSE IF p = "lp_search" THEN "vector_search"
    ELSE IF p = "lp_web" THEN "perplexity"
    ELSE IF p = "lp_create" THEN "chat.completions"
    ELSE IF p = "lp_next" THEN "stream"
    ELSE IF p = "lp_check" THEN "is_disconnected"
    ELSE "yield"

\* The task makes the call of its place and waits for the answer.
LoopCall ==
    /\ pc # "lp_done"
    /\ local.waiting = ""
    /\ local' = [local EXCEPT !.waiting = CallAt(pc)]
    /\ calls' = Append(calls, [svc |-> CallAt(pc), awaited |-> Suspends(CallAt(pc))])
    /\ UNCHANGED <<pc, chunks, query_type>>
    /\ LoopFrame

\* Where the task goes on after its retrievers.
AfterRetrieval(found) ==
    IF query_type = "hybrid" THEN "lp_web"
    ELSE IF found THEN "lp_create" ELSE "lp_done"

\* The answer is there (ok) or the call has failed, and the task goes on.
LoopReturn ==
    /\ local.waiting # ""
    /\ \E ok \in BOOLEAN :
         /\ query_type' \in (IF pc # "lp_classify" THEN {query_type}
                              ELSE IF ok THEN {"internal", "external", "hybrid"}
                              ELSE {"external"})
         /\ pc' = IF pc = "lp_classify" THEN FirstRetrieval(query_type')
                  ELSE IF pc = "lp_embed"
                  THEN (IF ok THEN "lp_search"
                        ELSE IF local.attempt < max_retries - 1 THEN "lp_sleep"
                        ELSE AfterRetrieval(FALSE))
                  ELSE IF pc = "lp_sleep" THEN "lp_embed"
                  ELSE IF pc = "lp_search" THEN AfterRetrieval(ok)
                  ELSE IF pc = "lp_web" THEN "lp_create"
                  ELSE IF pc = "lp_create" THEN (IF ok THEN "lp_next" ELSE "lp_done")
                  ELSE IF pc = "lp_next"
                  THEN (IF ok /\ Len(chunks) < MaxChunks THEN "lp_check" ELSE "lp_done")
                  ELSE IF pc = "lp_check" THEN (IF ok THEN "lp_yield" ELSE "lp_done")
                  ELSE "lp_next"
         /\ local' = [local EXCEPT !.waiting = "",
                                   !.attempt = IF pc = "lp_sleep" THEN @ + 1 ELSE @]
         /\ chunks' = IF pc = "lp_next" /\ ok /\ Len(chunks) < MaxChunks
                      THEN Append(chunks, Chunk("text", Len(chunks) + 1))
                      ELSE chunks
    /\ UNCHANGED calls
    /\ LoopFrame

\* The event loop runs a step of another request's task.
OtherRequestStep ==
    /\ LoopFree
    /\ local.other < MaxOtherSteps
    /\ local' = [local EXCEPT !.other = @ + 1]
    /\ UNCHANGED <<pc, chunks, calls, query_type>>
    /\ LoopFrame

NextLoop ==
    \/ LoopCall
    \/ LoopReturn
    \/ OtherRequestStep

SpecLoop == InitLoop /\ [][NextLoop]_vars

(***************************************************************************)
(* Properties.                                                             *)
(***************************************************************************)
CountType(t) == Cardinality({i \in DOMAIN out : out[i].type = t})

IsCompletionCall(c) == c.svc = "chat.completions" /\ c.stream

NoCompletionCall == \A i \in DOMAIN calls : ~IsCompletionCall(calls[i])

\* The text deltas among the chunks delivered.
TextChunks == {i \in DOMAIN chunks : chunks[i].choices /\ chunks[i].content # ""}

WebFailed == external_results # NoneValue /\ external_results.source = "Error"

\* C1: whatever the classifier, the retrievers and the completion do (also
\* when a step raises or the caller disconnects), the generator returns
\* only after it has emitted the sentinel: the stream of a returned
\* generator holds the sentinel exactly once, as its last item, and the
\* stream of a running generator does not hold it.
C1_DoneOnceAndLast ==
    /\ pc = "finished" =>
          /\ CountType("[DONE]") = 1
          /\ out[Len(out)] = DONE
    /\ pc # "finished" => CountType("[DONE]") = 0

C1_Witness ==
    /\ pc = "finished"
    /\ disconnected
    /\ chat_error # ""
    /\ TextChunks # {}
    /\ out[Len(out)] = DONE

\* C2: at most one sources event; it precedes every content event; and a
\* finished request has emitted it exactly if the internal retriever
\* returned at least one document.
C2_SourcesOnceBeforeContent ==
    /\ CountType("sources") <= 1
    /\ \A i, j \in DOMAIN out :
          (out[i].type = "sources" /\ out[j].type = "content") => i < j
    /\ CountType("sources") = 1 => Len(internal_results) > 0
    /\ pc = "finished" => (CountType("sources") = 1 <=> Len(internal_results) > 0)

C2_Witness ==
    /\ pc = "finished"
    /\ query_type = "hybrid"
    /\ CountType("sources") = 1
    /\ CountType("content") > 1

\* C3 as stated: an internal request without hits yields exactly two events
\* before the sentinel, one status and one content, no sources event and no
\* completion call.
C3_TwoEvents ==
    (pc = "finished" /\ query_type = "internal" /\ Len(internal_results) = 0)
    => /\ Len(out) = 3
       /\ CountType("status") = 1
       /\ CountType("content") = 1
       /\ CountType("sources") = 0
       /\ out[Len(out)] = DONE
       /\ NoCompletionCall

\* C3 (amended): an internal request without hits yields exactly three
\* events before the sentinel: the receipt status, the internal-search
\* status and the nothing-found content; no sources event and no completion
\* call.
C3_ThreeEvents ==
    (pc = "finished" /\ query_type = "internal" /\ Len(internal_results) = 0)
    => /\ out = <<StatusEvent(StatusClassifying), StatusEvent(StatusInternal),
                  ContentEvent(NothingFoundInternal), DONE>>
       /\ NoCompletionCall

C3_Witness ==
    /\ pc = "finished"
    /\ query_type = "internal"
    /\ Len(internal_results) = 0
    /\ openai_client

\* C4: an external request whose web search failed emits the nothing-found
\* message as its only content event and then the sentinel, without a
\* completion call.
C4_ExternalFailureExits ==
    (pc = "finished" /\ query_type = "external" /\ WebFailed)
    => /\ out = <<StatusEvent(StatusClassifying), StatusEvent(StatusWeb),
                  ContentEvent(NothingFoundExternal), DONE>>
       /\ NoCompletionCall

\* C5: a hybrid request with no internal document and a failed web search
\* emits the nothing-found message as its only content event and then the
\* sentinel, without a sources event and without a completion call.
C5_HybridEmptyExits ==
    (pc = "finished" /\ query_type = "hybrid" /\ Len(internal_results) = 0 /\ WebFailed)
    => /\ CountType("content") = 1
       /\ \E i \in DOMAIN out : out[i] = ContentEvent(NothingFoundHybrid)
       /\ CountType("sources") = 0
       /\ out[Len(out)] = DONE
       /\ NoCompletionCall

\* C6: the step in which the delta loop observes the disconnection emits
\* nothing and calls no provider; afterwards only the sentinel is emitted,
\* no provider is called, and no error event is in the stream.
C6_NoContentAfterDisconnect ==
    /\ [][(observed' /\ ~observed) => (out' = out /\ calls' = calls)]_vars
    /\ [][observed => (calls' = calls /\ (out' = out \/ out' = Append(out, DONE)))]_vars
    /\ [](observed => (/\ pc \in {"done", "finished"}
                       /\ CountType("error") = 0
                       /\ pc = "finished" => out[Len(out)] = DONE))

C6_Witness ==
    /\ pc = "finished"
    /\ observed
    /\ CountType("content") > 0
    /\ Len(chunks) \in TextChunks

\* C7: once the completion call has failed (when issued or after deltas),
\* the finished stream consists of what was emitted before the failure,
\* one content event with the explanation, and the sentinel; it holds no
\* error event, and its content events are the forwarded deltas plus one.
C7_CompletionFailureRecovered ==
    /\ [][chat_error' # chat_error => (pc' = "handler" /\ out' = out)]_vars
    /\ [][pc = "handler" =>
            (\/ UNCHANGED <<pc, out>>
             \/ /\ pc' = "done"
                /\ out' = Append(out, ContentEvent(ErrorResponse(chat_error,
                                   ErrorContext(internal_results, external_results)))))]_vars
    /\ []((pc = "finished" /\ chat_error # "") =>
            /\ CountType("error") = 0
            /\ CountType("content") = Cardinality(TextChunks) + 1
            /\ out[Len(out)] = DONE
            /\ out[Len(out) - 1] = ContentEvent(ErrorResponse(chat_error,
                                      ErrorContext(internal_results, external_results))))

C7_Witness ==
    /\ pc = "finished"
    /\ chat_error \in CompletionErrors
    /\ Cardinality(TextChunks) = 2
    /\ CountType("sources") = 1

\* C8: an exception that escapes a step outside the completion is answered
\* by one error event and then the sentinel; an error event is emitted only
\* by that handler, at most once, and nothing but the sentinel follows it.
C8_ErrorThenDone ==
    /\ [][pc = "except" =>
            (\/ UNCHANGED <<pc, out>>
             \/ /\ pc' = "except_done"
                /\ Len(out') = Len(out) + 1
                /\ out'[Len(out')].type = "error")]_vars
    /\ [][pc = "except_done" =>
            (UNCHANGED <<pc, out>> \/ (pc' = "finished" /\ out' = Append(out, DONE)))]_vars
    /\ [][pc # "except" =>
            Cardinality({i \in DOMAIN out' : out'[i].type = "error"}) = CountType("error")]_vars
    /\ [](/\ CountType("error") <= 1
          /\ \A i \in DOMAIN out : out[i].type = "error" =>
                \/ i = Len(out) /\ pc = "except_done"
                \/ i = Len(out) - 1 /\ out[Len(out)] = DONE /\ pc = "finished")

C8_Witness ==
    /\ pc = "finished"
    /\ CountType("error") = 1
    /\ Len(internal_results) > 0
    /\ out[Len(out)] = DONE

\* C9: with I, E, C saying whether the lowercased question contains a term
\* of the internal, external and comparison lists, classify_query returns
\* hybrid if I and (C or E), otherwise external if E, otherwise internal if I.
ContainsTerm(question, terms) ==
    \E t \in terms : \E i \in 1..Len(question) :
        i + Len(t) - 1 <= Len(question) /\ StrLower(SubSeq(question, i, i + Len(t) - 1)) = t

C9_TierOrder ==
    pc = "cq_returned" =>
        LET I == ContainsTerm(message, internal_keywords)
            E == ContainsTerm(message, external_keywords)
            C == ContainsTerm(message, hybrid_indicators)
        IN  /\ (I /\ (C \/ E)) => query_type = "hybrid"
            /\ (~(I /\ (C \/ E)) /\ E) => query_type = "external"
            /\ (~(I /\ (C \/ E)) /\ ~E /\ I) => query_type = "internal"

C9_Witness ==
    /\ pc = "cq_returned"
    /\ message = "carryTesla"
    /\ query_type = "hybrid"

\* C10: the three documented questions are decided by the keyword lists:
\* hybrid, external and internal, whatever the model provider would answer
\* and without a call to it.
C10_DocumentedQuestions ==
    pc = "cq_returned" =>
        /\ message = "How does GlobeLink's ARR compare to public SaaS companies?"
              => (query_type = "hybrid" /\ calls = <<>>)
        /\ message = "What is CrowdStrike's market cap?"
              => (query_type = "external" /\ calls = <<>>)
        /\ message = "What was the ARR for GlobeLink?"
              => (query_type = "internal" /\ calls = <<>>)

C10_Witness ==
    /\ pc = "cq_returned"
    /\ openai_client
    /\ message = "What was the ARR for GlobeLink?"
    /\ query_type = "internal"

\* C11: on the fallback path of classify_query (no lexical tier matched) the
\* result is one of internal, external, hybrid: with an initialised client
\* and a response that is INTERNAL, EXTERNAL or HYBRID once trimmed and
\* upper-cased it is that intent; for every other response, a response
\* without text, a failed call or an uninitialised client it is external.
C11_FallbackTotal ==
    (pc = "cq_returned" /\ local # NoneValue) =>
        LET answered == openai_client /\ local.response \notin {NoContent, CallFails}
            label == IF answered THEN StrUpper(StrStrip(local.response)) ELSE ""
        IN  /\ query_type \in {"internal", "external", "hybrid"}
            /\ label = "INTERNAL" => query_type = "internal"
            /\ label = "EXTERNAL" => query_type = "external"
            /\ label = "HYBRID" => query_type = "hybrid"
            /\ label \notin {"INTERNAL", "EXTERNAL", "HYBRID"} => query_type = "external"

C11_Witness ==
    /\ pc = "cq_returned"
    /\ openai_client
    /\ local = [response |-> " internal\n"]
    /\ query_type = "internal"

\* C12: search_internal_documents never lets an exception out: when the
\* embedding step raises (no client, or the last retry failed), the vector
\* search raises or the processing of a hit raises, control is in the
\* except clause and the call returns the empty list, whatever documents
\* had been built.
C12_NeverPropagates ==
    /\ pc # "sid_raised"
    /\ (pc \in {"sid_except", "sid_returned"} /\ local.raised # "") =>
           /\ local.raised \in {ServiceUnavailable, HitError} \cup EmbedErrors \cup SearchErrors
           /\ pc = "sid_returned" => internal_results = <<>>
    /\ (pc \in {"sid_search", "sid_hits"}) => local.raised = ""
    /\ (pc = "sid_returned" /\ local.raised = "") =>
           (internal_results = local.documents /\ Len(internal_results) = local.hits)

C12_Witness ==
    /\ pc = "sid_returned"
    /\ local.raised = HitError
    /\ Len(local.documents) = 2
    /\ internal_results = <<>>

\* C13: search_web always returns a record: on a 200 answer it holds the
\* provider's text under the source label "Perplexity AI"; on any other
\* status and on any exception it holds the source label "Error" and a text
\* that describes the failure; in every case its query field is the query
\* that was sent.
C13_SearchWebTotal ==
    pc = "web_returned" =>
        /\ external_results # NoneValue
        /\ external_results.query = message
        /\ IF openai_client /\ local.outcome = "200"
           THEN /\ external_results.content = WebContent
                /\ external_results.source = "Perplexity AI"
           ELSE /\ external_results.source = "Error"
                /\ \/ external_results.content = "Unable to fetch web results"
                   \/ SubSeq(external_results.content, 1, 19) = "Web search failed: "

C13_Witness ==
    /\ pc = "web_returned"
    /\ openai_client
    /\ local.outcome = "transport_error"
    /\ external_results.source = "Error"
    /\ external_results.query = message

\* C14: every sources event in the stream has min(3, n) entries for the n
\* retrieved documents; entry j is made from the j-th document in retrieval
\* order and holds exactly three fields: the document's title, the
\* document's snippet (under the key content) and its score - the
\* document's content field is not copied.
C14_SourcesEntries ==
    \A i \in DOMAIN out :
        out[i].type = "sources" =>
            /\ Len(out[i].sources) = Min(3, Len(internal_results))
            /\ \A j \in DOMAIN out[i].sources :
                   /\ DOMAIN out[i].sources[j] = {"title", "content", "score"}
                   /\ out[i].sources[j].title = internal_results[j].title
                   /\ out[i].sources[j].content = internal_results[j].snippet
                   /\ out[i].sources[j].score = internal_results[j].score

C14_Witness ==
    /\ Len(internal_results) = 4
    /\ \E i \in DOMAIN out :
          /\ out[i].type = "sources"
          /\ Len(out[i].sources) = 3
          /\ out[i].sources[3].content = internal_results[3].snippet
          /\ out[i].sources[3].content # internal_results[3].content

\* C15: for every non-empty text, clean_text returns a text without a
\* character outside 7-bit ASCII and without two consecutive whitespace
\* characters.
C15_CleanAsciiSingleSpaced ==
    (pc = "ct_returned" /\ Len(message) > 0) =>
        /\ \A i \in 1..Len(local.result) : IsAsciiCode(local.result[i])
        /\ \A i \in 1..(Len(local.result) - 1) :
               ~(IsSpaceCode(local.result[i]) /\ IsSpaceCode(local.result[i + 1]))

\* C16: extract_snippet always returns; when the tokenizer raises or yields
\* no sentence, what it returns is the first 500 characters of the text.
C16_SnippetFallback ==
    /\ pc \in {"es_call", "es_returned"} => local.op = "es"
    /\ pc = "es_returned" =>
          ((~local.tokenizer_ok \/ SentTokenize(message) = <<>>) =>
              /\ Len(local.result) = Min(500, Len(message))
              /\ \A i \in 1..Len(local.result) : local.result[i] = message[i])

C16_Witness ==
    /\ pc = "es_returned"
    /\ ~local.tokenizer_ok
    /\ Len(message) > 500
    /\ Len(local.result) = 500

\* C17: when the tokenizer yields sentences, the window is centred on the
\* sentence with the highest score (the number of lower-cased words it
\* shares with the lower-cased query), on the first such sentence when
\* several have that score, hence on the first sentence when all score 0.
C17_BestSentence ==
    (pc = "es_returned" /\ local.tokenizer_ok /\ SentTokenize(message) # <<>>) =>
        LET sentences == SentTokenize(message)
            score(i) == Cardinality(WordSet(LowerCodes(local.query))
                                    \cap WordSet(LowerCodes(sentences[i])))
        IN  /\ local.best \in 1..Len(sentences)
            /\ \A i \in 1..Len(sentences) : score(i) <= score(local.best)
            /\ \A i \in 1..(local.best - 1) : score(i) < score(local.best)
            /\ (\A i \in 1..Len(sentences) : score(i) = 0) => local.best = 1

C17_Witness ==
    /\ pc = "es_returned"
    /\ local.tokenizer_ok
    /\ local.query = ToCodes("ARR")
    /\ message = ToCodes("Revenue was flat! GlobeLink ARR grew. arr and revenue rose.")
    /\ local.best = 2

\* C18: with the clients never initialised, an operation that depends on a
\* client fails with the service-unavailable signal and issues no provider
\* call; here: the streaming completion of the chat pipeline.
C18_FailFastUnavailable ==
    ~openai_client =>
        /\ \A i \in DOMAIN calls :
               calls[i].svc \notin {"embeddings", "vector_search", "chat.completions"}
        /\ chat_error # "" => chat_error = ServiceUnavailable

\* C19: when a required variable is not set or empty, the process gets no
\* further than validate_env: it exits with code 1, the application object
\* is never created, no client is initialised and no request is served.
C19_ExitBeforeApp ==
    (pc \in {"validate_env", "exited", "create_app", "init_clients", "serving"}
     /\ \E v \in RequiredNames : local.environ[v] \in {Unset, ""}) =>
        /\ pc \in {"validate_env", "exited"}
        /\ pc = "exited" => local.exit_code = 1
        /\ ~local.app
        /\ ~openai_client /\ ~search_client
        /\ ~local.served

C19_Witness ==
    /\ pc = "exited"
    /\ local.exit_code = 1
    /\ local.environ["PERPLEXITY_API_KEY"] = ""
    /\ \A v \in RequiredNames : local.environ[v] # Unset
    /\ ~local.app

\* C20: /healthz probes the index whenever the search client exists and the
\* embedding provider whenever the OpenAI client exists, whatever the other
\* probe did; the overall status is ok exactly when both probes succeeded
\* and degraded otherwise (a probe failed or a client is missing).
C20_IndependentProbes ==
    pc = "hz_returned" =>
        /\ (\E i \in DOMAIN calls : calls[i].svc = "search_probe") <=> search_client
        /\ (\E i \in DOMAIN calls : calls[i].svc = "embeddings") <=> openai_client
        /\ local.checks.azure_search = "ok" =>
               (\E i \in DOMAIN calls : calls[i].svc = "search_probe")
        /\ local.checks.azure_openai = "ok" =>
               (calls # <<>> /\ calls[Len(calls)].svc = "embeddings")
        /\ local.status \in {"ok", "degraded"}
        /\ local.status = "ok" <=>
               (local.checks.azure_search = "ok" /\ local.checks.azure_openai = "ok")
        /\ (~search_client \/ ~openai_client) => local.status = "degraded"

C20_Witness ==
    /\ pc = "hz_returned"
    /\ local.checks.azure_search = "error: Index not found"
    /\ local.checks.azure_openai = "ok"
    /\ local.status = "degraded"

\* C21: a request goes through the phases Classifying (1), Retrieving (2),
\* PromptBuilding (3), Completing (4), Done (5) in this order: every step
\* stays in its phase or enters the next one, except the early exit, which
\* goes from Retrieving to Done; and when the generator is always resumed,
\* the request reaches the end of Done.
PhaseOf(p) ==
    IF p \in {"start", "classify"} THEN 1
    ELSE IF p \in {"dispatch", "internal", "web_status", "web", "results"} THEN 2
    ELSE IF p = "prompt" THEN 3
    ELSE IF p \in {"create", "loop", "handler"} THEN 4
    ELSE 5

C21_PhasesInOrder ==
    /\ PhaseOf(pc) = 1
    /\ [][\/ PhaseOf(pc') = PhaseOf(pc)
          \/ PhaseOf(pc') = PhaseOf(pc) + 1
          \/ (pc = "results" /\ pc' = "early_done")]_vars
    /\ <>[](pc = "finished")

C21_Witness ==
    /\ pc = "finished"
    /\ query_type = "hybrid"
    /\ CountType("sources") = 1
    /\ CountType("content") = MaxChunks
    /\ out[Len(out)] = DONE

\* C22: the first event of a stream is the receipt status, emitted before
\* the classifier is called; when a retriever is about to be called the last
\* event is that retriever's status event; when the completion call is about
\* to be issued the last event is the generating status, every sources
\* event lies before it, and every content event of a stream that has it
\* lies after it.
C22_StatusCheckpoints ==
    /\ pc = "start" => (out = <<>> /\ calls = <<>>)
    /\ pc = "classify" => (out = <<StatusEvent(StatusClassifying)>> /\ calls = <<>>)
    /\ out # <<>> => out[1] = StatusEvent(StatusClassifying)
    /\ pc = "internal" => out[Len(out)] = StatusEvent(StatusInternal)
    /\ pc = "web" =>
          out[Len(out)] = StatusEvent(IF query_type = "hybrid" THEN StatusWebMarket
                                      ELSE StatusWeb)
    /\ pc = "create" => (out[Len(out)] = StatusEvent(StatusGenerating) /\ NoCompletionCall)
    /\ ~NoCompletionCall => \E i \in DOMAIN out : out[i] = StatusEvent(StatusGenerating)
    /\ \A i \in DOMAIN out :
          out[i] = StatusEvent(StatusGenerating) =>
              /\ \A j \in DOMAIN out : out[j].type = "sources" => j < i
              /\ \A j \in DOMAIN out : out[j].type = "content" => j > i

C22_Witness ==
    /\ pc = "finished"
    /\ Len(out) >= 7
    /\ out[1] = StatusEvent(StatusClassifying)
    /\ out[2] = StatusEvent(StatusInternal)
    /\ out[3] = StatusEvent(StatusWebMarket)
    /\ out[4].type = "sources"
    /\ out[5] = StatusEvent(StatusGenerating)
    /\ out[6].type = "content"

\* The positions in calls of the calls of function f.
CallsOf(f) == {i \in DOMAIN calls : calls[i].svc = f}

\* The retrieval step of the request is over.
Retrieved ==
    pc \in {"results", "early_done", "prompt", "create", "loop", "handler", "done", "finished"}

\* C23: once retrieval is over, an external request has made exactly one
\* search_web call, with the raw question, and no search_internal_documents
\* call; an internal request exactly one search_internal_documents call,
\* with the raw question, and no search_web call; a hybrid request exactly
\* one call of each.  No request ever makes a second call of a retriever.
C23_RetrieversByIntent ==
    /\ Cardinality(CallsOf("search_web")) <= 1
    /\ Cardinality(CallsOf("search_internal_documents")) <= 1
    /\ Retrieved =>
          /\ query_type \in {"internal", "external", "hybrid"}
          /\ Cardinality(CallsOf("search_web")) = (IF query_type = "internal" THEN 0 ELSE 1)
          /\ Cardinality(CallsOf("search_internal_documents"))
                = (IF query_type = "external" THEN 0 ELSE 1)
          /\ query_type = "external" =>
                \A i \in CallsOf("search_web") : calls[i].query = message
          /\ query_type \in {"internal", "hybrid"} =>
                \A i \in CallsOf("search_internal_documents") : calls[i].query = message

C23_Witness ==
    /\ pc = "results"
    /\ query_type = "external"
    /\ CallsOf("search_internal_documents") = {}
    /\ \E i \in CallsOf("search_web") : calls[i].query = message

\* C24: in a hybrid request search_internal_documents is called with the
\* raw question and has returned before search_web is called; search_web is
\* called with the fixed phrase followed by the raw question, also when the
\* internal search returned no document.
C24_HybridOrder ==
    query_type = "hybrid" =>
        /\ \A k \in CallsOf("search_web") :
              /\ calls[k].query = HybridPrefix \o message
              /\ \E i, j \in 1..(k - 1) :
                    /\ i < j
                    /\ calls[i] = [svc |-> "search_internal_documents", query |-> message]
                    /\ calls[j] = [svc |-> "return", of |-> "search_internal_documents"]
        /\ Retrieved => CallsOf("search_web") # {}

C24_Witness ==
    /\ pc = "results"
    /\ query_type = "hybrid"
    /\ internal_results = <<>>
    /\ \E k \in CallsOf("search_web") : calls[k].query = HybridPrefix \o message

\* C25: the classifier is called once per request and the intent it
\* returned is not changed afterwards; every call of the classifier or of a
\* retriever has returned before the next call is made (no two calls are
\* outstanding), the classifier before any retriever call, the retrievers
\* before the completion call.
FunctionCalls ==
    CallsOf("classify_query") \cup CallsOf("search_web")
        \cup CallsOf("search_internal_documents")

Sequential ==
    /\ Cardinality(CallsOf("classify_query")) = (IF pc \in {"start", "classify"} THEN 0 ELSE 1)
    /\ \A i \in FunctionCalls :
          \E j \in (i + 1)..Len(calls) :
              /\ calls[j] = [svc |-> "return", of |-> calls[i].svc]
              /\ \A k \in (i + 1)..(j - 1) : k \notin FunctionCalls
    /\ \A i \in CallsOf("classify_query") :
          \A k \in CallsOf("search_web") \cup CallsOf("search_internal_documents") : i < k
    /\ \A i \in DOMAIN calls :
          IsCompletionCall(calls[i]) =>
              \A k \in DOMAIN calls : (k \in FunctionCalls \/ calls[k].svc = "return") => k < i

C25_OnceAndSequential ==
    /\ []Sequential
    /\ [][pc \notin {"start", "classify"} => query_type' = query_type]_vars

C25_Witness ==
    /\ pc = "loop"
    /\ query_type = "hybrid"
    /\ Cardinality(FunctionCalls) = 3
    /\ IsCompletionCall(calls[Len(calls)])

\* The number of embeddings.create calls made so far.
EmbeddingCalls == Cardinality(CallsOf("embeddings"))

\* C26: get_embedding makes at most three embeddings calls; it returns at
\* the first call that succeeds; after the first failure it waits 500 ms and
\* after the second 1000 ms; after the third failure it raises the error
\* without a third wait; without a client it raises service-unavailable
\* and has made no call.
C26_EmbeddingRetries ==
    local.op \in {"sid", "hz"} =>
        /\ EmbeddingCalls <= 3
        /\ local.sleeps \in {<<>>, <<500>>, <<500, 1000>>}
        /\ pc = "ge_call" => EmbeddingCalls = Len(local.sleeps)
        /\ pc \in {"sid_search", "hz_embed_ok"} => EmbeddingCalls = Len(local.sleeps) + 1
        /\ local.raised \in EmbedErrors =>
              EmbeddingCalls = 3 /\ local.sleeps = <<500, 1000>>
        /\ local.raised = ServiceUnavailable =>
              EmbeddingCalls = 0 /\ local.sleeps = <<>>
        /\ ~openai_client => EmbeddingCalls = 0
        /\ (~openai_client /\ pc \in {"sid_except", "hz_embed_error"}) =>
              local.raised = ServiceUnavailable

C26_Witness ==
    /\ pc = "sid_except"
    /\ local.raised \in EmbedErrors
    /\ EmbeddingCalls = 3
    /\ local.sleeps = <<500, 1000>>

\* The streaming completion calls made so far.
CompletionCalls == {i \in DOMAIN calls : IsCompletionCall(calls[i])}

\* C27: a request posts at most one web search to the provider and issues
\* at most one streaming completion call.  search_web returns on its only
\* attempt, with the source "Error" when the attempt failed; a failure of
\* the completion leads straight to the handler, which emits the
\* explanation as a content event and makes no further call.
C27_NoRetry ==
    /\ [](Cardinality(CallsOf("perplexity")) <= 1 /\ Cardinality(CompletionCalls) <= 1)
    /\ [][external_results' # external_results =>
            /\ pc = "web" /\ pc' = "results"
            /\ external_results'.source \in {"Perplexity AI", "Error"}
            /\ external_results'.source = "Perplexity AI" <=>
                  external_results'.content = WebContent]_vars
    /\ [][chat_error' # chat_error => pc' = "handler"]_vars
    /\ [][(pc = "handler" /\ pc' # pc) =>
            /\ pc' = "done"
            /\ calls' = calls
            /\ out' = Append(out, ContentEvent(ErrorResponse(chat_error,
                                  ErrorContext(internal_results, external_results))))]_vars

C27_Witness ==
    /\ pc = "finished"
    /\ WebFailed
    /\ chat_error \in CompletionErrors
    /\ Cardinality(CallsOf("perplexity")) = 1
    /\ Cardinality(CompletionCalls) = 1

IsContentEvent(e) == e.type = "content"

IsTextChunk(c) == c.choices /\ c.content # ""

\* The texts of the content events emitted, in order.
ContentsEmitted ==
    LET es == SelectSeq(out, IsContentEvent) IN [i \in DOMAIN es |-> es[i].content]

\* The non-empty deltas of the chunks received, in order.
DeltasReceived ==
    LET cs == SelectSeq(chunks, IsTextChunk) IN [i \in DOMAIN cs |-> cs[i].content]

\* C28: once the streaming completion call was issued, and as long as the
\* stream has not failed and no disconnect was observed, the content events
\* emitted are the non-empty deltas of the
\* chunks received so far: as many, with the same texts, in the same order.
\* A chunk without choices or with an empty delta adds no event.
C28_DeltasForwarded ==
    /\ []((CompletionCalls # {} /\ chat_error = "" /\ ~observed) =>
            ContentsEmitted = DeltasReceived)
    /\ [][(chunks' # chunks /\ ~disconnected) =>
            /\ chunks' = Append(chunks, chunks'[Len(chunks')])
            /\ out' = IF IsTextChunk(chunks'[Len(chunks')])
                      THEN Append(out, ContentEvent(chunks'[Len(chunks')].content))
                      ELSE out]_vars

C28_Witness ==
    /\ pc = "finished"
    /\ CompletionCalls # {}
    /\ chat_error = ""
    /\ ~observed
    /\ Len(chunks) = 3
    /\ IsTextChunk(chunks[1])
    /\ ~IsTextChunk(chunks[2])
    /\ IsTextChunk(chunks[3])
    /\ ContentsEmitted = <<chunks[1].content, chunks[3].content>>

\* The model-classification calls made so far.
ClassifierCalls ==
    {i \in DOMAIN calls : calls[i].svc = "chat.completions" /\ ~calls[i].stream}

\* The lowercased question contains no internal and no external keyword.
NoLexicalMatch ==
    ~ContainsTerm(message, internal_keywords) /\ ~ContainsTerm(message, external_keywords)

\* C29 as stated: a classification issues at most one model-classification
\* call, and issues it exactly when the lowercased question contains no
\* internal keyword and no external keyword.
C29_CallIffNoLexicalMatch ==
    pc = "cq_returned" =>
        /\ Cardinality(ClassifierCalls) <= 1
        /\ Cardinality(ClassifierCalls) = 1 <=> NoLexicalMatch

\* C29 (amended): a classification issues at most one model-classification
\* call, and issues it exactly when the lowercased question contains no
\* internal keyword and no external keyword and the model client is
\* initialised; without a client the fallback issues no call and the intent
\* is external.  When a lexical tier matches, the intent is the same for
\* every state and response of the model provider and no response is read.
C29_CallIffNoLexicalMatchAndClient ==
    pc = "cq_returned" =>
        /\ Cardinality(ClassifierCalls) <= 1
        /\ Cardinality(ClassifierCalls) = 1 <=> (NoLexicalMatch /\ openai_client)
        /\ (NoLexicalMatch /\ ~openai_client) => query_type = "external"
        /\ ~NoLexicalMatch =>
              /\ local = NoneValue
              /\ \A client \in BOOLEAN, outcome \in LLMOutcomes :
                    ClassifyQuery(message, client, outcome).intent = query_type

C29_Witness ==
    /\ pc = "cq_returned"
    /\ NoLexicalMatch
    /\ openai_client
    /\ Cardinality(ClassifierCalls) = 1
    /\ query_type = "hybrid"

Max(a, b) == IF a > b THEN a ELSE b

\* The sequences of ss, in order, with one space between neighbours.
RECURSIVE SpaceJoined(_)
SpaceJoined(ss) ==
    IF Len(ss) = 0 THEN <<>>
    ELSE IF Len(ss) = 1 THEN ss[1]
    ELSE ss[1] \o <<32>> \o SpaceJoined(Tail(ss))

\* C30: with n sentences, best index b (counted from 0) and window size w,
\* the snippet is the sentences max(0, b - w) .. min(n - 1, b + w), in
\* order, joined by single spaces, with "... " in front exactly when the
\* window does not start at the first sentence and " ..." behind exactly
\* when it does not end at the last one.
C30_SnippetWindow ==
    (pc = "es_returned" /\ local.op = "es" /\ local.best > 0) =>
        LET sentences == SentTokenize(message)
            n == Len(sentences)
            b == local.best - 1
            lo == Max(0, b - window_size)
            hi == Min(n - 1, b + window_size)
            window == [k \in 1..(hi - lo + 1) |-> sentences[lo + k]]
        IN  /\ b \in 0..(n - 1)
            /\ local.result = (IF lo > 0 THEN <<46, 46, 46, 32>> ELSE <<>>)
                                \o SpaceJoined(window)
                                \o (IF hi < n - 1 THEN <<32, 46, 46, 46>> ELSE <<>>)

C30_Witness ==
    /\ pc = "es_returned"
    /\ local.op = "es"
    /\ Len(SentTokenize(message)) = 5
    /\ local.best = 3
    /\ SubSeq(local.result, 1, 4) = <<46, 46, 46, 32>>
    /\ SubSeq(local.result, Len(local.result) - 3, Len(local.result)) = <<32, 46, 46, 46>>

\* C31: a search_internal_documents call that raised nothing returns one
\* document per hit of the index, the i-th document built from the i-th
\* hit (same identifier, same score, so in the index's order); its content
\* is the hit's content as it is, and its snippet is extract_snippet of the
\* cleaned content and the caller's query.
C31_OneDocumentPerHit ==
    (pc = "sid_returned" /\ local.op = "sid" /\ local.raised = "") =>
        /\ Len(internal_results) = local.hits
        /\ \A i \in DOMAIN internal_results :
              /\ internal_results[i].url = "#" \o Hit(i).id
              /\ internal_results[i].score = Hit(i).score
              /\ internal_results[i].content = Hit(i).content
              /\ internal_results[i].snippet =
                    FromCodes(ExtractSnippet(CleanText(ToCodes(Hit(i).content)),
                                             ToCodes(message), TRUE).snippet)
        /\ \A i, j \in DOMAIN internal_results :
              i < j => internal_results[i].score > internal_results[j].score

C31_Witness ==
    /\ pc = "sid_returned"
    /\ local.op = "sid"
    /\ local.raised = ""
    /\ local.hits = 3
    /\ Len(internal_results) = 3
    /\ internal_results[1].content # internal_results[1].snippet

\* The stream stream_generator produces for a request, given what the
\* classifier, the retrievers and the completion stream answered to it and
\* whether it saw its caller disconnect.
StreamOf(r) ==
    LET nothing_found ==
            IF r.query_type = "external" THEN ~TruthyDict(r.external_results)
            ELSE IF r.query_type = "hybrid"
            THEN ~TruthyList(r.internal_results) /\ ~TruthyDict(r.external_results)
            ELSE ~TruthyList(r.internal_results)
        head ==
            <<StatusEvent(StatusClassifying)>>
            \o (IF r.query_type = "external" THEN <<StatusEvent(StatusWeb)>>
                ELSE IF r.query_type = "hybrid"
                THEN <<StatusEvent(StatusInternal), StatusEvent(StatusWebMarket)>>
                ELSE <<StatusEvent(StatusInternal)>>)
        forwarded ==
            IF r.observed THEN SubSeq(r.chunks, 1, Len(r.chunks) - 1) ELSE r.chunks
        deltas == SelectSeq(forwarded, IsTextChunk)
    IN  IF nothing_found
        THEN head \o <<ContentEvent(IF r.query_type = "external" THEN NothingFoundExternal
                                    ELSE IF r.query_type = "hybrid" THEN NothingFoundHybrid
                                    ELSE NothingFoundInternal),
                       DONE>>
        ELSE head
             \o (IF r.query_type # "external" /\ TruthyList(r.internal_results)
                 THEN <<SourcesEvent(Sources(r.internal_results))>> ELSE <<>>)
             \o <<StatusEvent(StatusGenerating)>>
             \o [i \in DOMAIN deltas |-> ContentEvent(deltas[i].content)]
             \o (IF r.chat_error # ""
                 THEN <<ContentEvent(ErrorResponse(r.chat_error,
                            ErrorContext(r.internal_results, r.external_results)))>>
                 ELSE <<>>)
             \o <<DONE>>

\* C32: of two requests served in any interleaving, each one's finished
\* stream is the stream determined by its own question and by what the
\* providers answered to it, as for a request served alone; a step of the
\* running request leaves the suspended request as it is, and no step
\* assigns the shared client handles.
C32_RequestsIndependent ==
    /\ [](\A r \in {ActiveRequest, local.parked} : r.pc = "finished" => r.out = StreamOf(r))
    /\ [][local'.id = local.id => local'.parked = local.parked]_vars
    /\ [][openai_client' = openai_client /\ search_client' = search_client]_vars

C32_Witness ==
    /\ local.id = 2
    /\ pc = "finished"
    /\ query_type = "internal"
    /\ CompletionCalls # {}
    /\ local.parked.pc = "web"
    /\ local.parked.query_type = "hybrid"
    /\ out = StreamOf(ActiveRequest)

\* C33 as stated: whenever the request's task waits in a call to the
\* embedding, vector-index, web-search or completion provider, the event
\* loop can run a step of another request.
C33_NetworkCallsSuspend ==
    (local.op = "loop" /\ local.waiting \in NetworkCalls) => LoopFree

\* C34: whatever the conversation history of the request, the intent is
\* the one the question alone determines (the lexical tier when one
\* matches), the classifier and the retrievers are called with the question
\* (the web search of a hybrid request with the fixed phrase and the
\* question), the finished stream is the stream determined by the question
\* and the providers' answers, and no step changes the history.
C34_HistoryUnused ==
    /\ [](pc = "dispatch" => query_type \in {"internal", "external", "hybrid"})
    /\ []((pc = "dispatch" /\ LexicalTier(message) # "none") =>
            query_type = LexicalTier(message))
    /\ [][pc \notin {"start", "classify"} => query_type' = query_type]_vars
    /\ [](\A i \in FunctionCalls : calls[i].query \in {message, HybridPrefix \o message})
    /\ [](pc = "finished" => out = StreamOf(ActiveRequest))
    /\ [][local' = local]_vars

C34_Witness ==
    /\ pc = "finished"
    /\ local.conversation_history # <<>>
    /\ query_type = "internal"
    /\ CountType("sources") = 1
    /\ out = StreamOf(ActiveRequest)

\* C35 as stated: clean_text applied to a text it has returned gives the
\* same text again.
C35_CleanTextIdempotent ==
    pc = "ct_twice" => local.again = local.result

\* The request is at or past the completion call.
PastCreate == pc \in {"loop", "handler", "done", "finished"}

\* C36 as stated: an external or hybrid request never takes the
\* nothing-found exit and always issues the streaming completion call.
C36_WebAlwaysCompletes ==
    query_type \in {"external", "hybrid"} =>
        /\ pc # "early_done"
        /\ (PastCreate \/ pc = "early_done") => CompletionCalls # {}

\* C36 (amended): for an external or hybrid request the record search_web
\* returned counts as evidence also when the search failed; the
\* nothing-found exit is never taken and no nothing-found message is
\* emitted; the request always gets to the completion step, where the
\* streaming call is issued once if the model client is initialised, and
\* otherwise fails before a call is issued.
C36_WebNeverExitsEarly ==
    query_type \in {"external", "hybrid"} =>
        /\ pc # "early_done"
        /\ \A i \in DOMAIN out :
              out[i].type = "content" => out[i].content \notin NothingFound
        /\ Retrieved => TruthyDict(external_results)
        /\ PastCreate =>
              IF openai_client THEN Cardinality(CompletionCalls) = 1
              ELSE CompletionCalls = {} /\ chat_error = NoClientError

C36_Witness ==
    /\ pc = "finished"
    /\ query_type = "hybrid"
    /\ internal_results = <<>>
    /\ WebFailed
    /\ Cardinality(CompletionCalls) = 1
    /\ chat_error = ""

\* C37: search_internal_documents returns either one document for every
\* hit of the index answer or no document at all; when a hit fails after
\* earlier hits were turned into documents, those documents are dropped.
C37_AllOrNothing ==
    (pc = "sid_returned" /\ local.op = "sid") =>
        /\ \/ internal_results = <<>>
           \/ /\ Len(internal_results) = local.hits
              /\ \A i \in DOMAIN internal_results :
                    internal_results[i] = Document(Hit(i), message)
        /\ local.raised # "" => internal_results = <<>>
        /\ (local.raised = "" /\ local.hits > 0) => internal_results # <<>>

C37_Witness ==
    /\ pc = "sid_returned"
    /\ local.op = "sid"
    /\ local.raised = HitError
    /\ local.hits = 3
    /\ Len(local.documents) \in 1..2
    /\ internal_results = <<>>

\* C38: no stream holds an error event and a content event; an error event
\* is emitted only by the top-level handler, for a failure before the
\* completion step (no completion call made, no completion failure
\* recorded), so no content event precedes it; after a content event only
\* content events and the sentinel follow.
C38_ErrorExcludesContent ==
    /\ [](CountType("error") = 0 \/ CountType("content") = 0)
    /\ [](\A i, j \in DOMAIN out :
            (i < j /\ out[i].type = "content") => out[j].type \in {"content", "[DONE]"})
    /\ [][Cardinality({i \in DOMAIN out' : out'[i].type = "error"}) > CountType("error") =>
            /\ pc = "except"
            /\ chat_error = ""
            /\ NoCompletionCall
            /\ CountType("content") = 0]_vars

C38_Witness ==
    /\ pc = "finished"
    /\ CountType("error") = 1
    /\ CountType("content") = 0
    /\ CountType("sources") = 1
    /\ CountType("status") = 3

====
